---- MODULE Spec2Model ----
(***************************************************************************)
(* Model of the taxonomic placement core of taxator-tk:                    *)
(*   - BandFactor                (taxonpredictionmodelsequence.hh 41-106)  *)
(*   - RPAPredictionModel::predict (taxonpredictionmodelsequence.hh        *)
(*     124-628), one action per phase / loop iteration                     *)
(*   - the taxonomy interface (getRoot, isParentOf, getLCA), whose code is *)
(*     not part of the sources at hand and is modelled from its contract   *)
(***************************************************************************)
EXTENDS Integers, Sequences, FiniteSets, TLC

(***************************************************************************)
(* Bounds of the model                                                     *)
(***************************************************************************)
\* largest number of alignment records in a recordset
MaxRecords == 3
\* alignment scores of records are drawn from 0..MaxScore
MaxScore == 2
\* exclude_factor is drawn from {k/FactorDen : k in 1..FactorDen}
FactorDen == 2
\* largest number of addSequence calls after the anchor (BandFactor alone)
MaxEntries == 3
\* scores handed to addSequence are 0..MaxBFScore and INT_MAX (BandFactor alone)
MaxBFScore == 2
\* largest number of nodes of a taxonomy, the root included
MaxTaxNodes == 4
\* longest outgroup_tmp and largest score of the walk taken on its own
MaxWalkLen == 3
MaxWalkScore == 4

(***************************************************************************)
(* Program constants                                                       *)
(***************************************************************************)
\* std::numeric_limits<int>::max()
IntMax == 2147483647
\* std::numeric_limits<small_unsigned_int>::max()
SmallUIntMax == 255
\* NULL pointer to a TaxonNode
NULL == 0

(***************************************************************************)
(* Rational numbers <<num, den>> with den > 0, standing for the floats     *)
(***************************************************************************)
RECURSIVE GCD(_, _)
GCD(a, b) == IF b = 0 THEN a ELSE GCD(b, a % b)

Abs(x) == IF x < 0 THEN -x ELSE x

Rat(num, den) ==
    LET g == GCD(Abs(num), den)
    IN  IF g = 0 THEN <<0, 1>> ELSE <<num \div g, den \div g>>

RatLT(a, b) == a[1] * b[2] < b[1] * a[2]
RatLE(a, b) == a[1] * b[2] <= b[1] * a[2]
RatMax(a, b) == IF RatLT(a, b) THEN b ELSE a

(***************************************************************************)
(* Single-precision values of the BandFactor arithmetic: <<num, den, e>>   *)
(* stands for (num/den) * 2^e.  An int converted to float keeps 24         *)
(* significant bits (round to nearest, ties to even); e = 0 for every int  *)
(* below 2^24, which is then held exactly.                                 *)
(***************************************************************************)
Pow2(k) == 2 ^ k

RECURSIVE floatExponent(_, _)
floatExponent(x, e) == IF x \div Pow2(e) < Pow2(24) THEN e ELSE floatExponent(x, e + 1)

\* float(x) for an int x >= 0
FloatOfInt(x) ==
    LET e == floatExponent(x, 0)
        q == x \div Pow2(e)
        r == x % Pow2(e)
        up == 2 * r > Pow2(e) \/ (2 * r = Pow2(e) /\ q % 2 = 1)
    IN  <<IF up THEN q + 1 ELSE q, 1, e>>

\* a / b for b # 0
FltDiv(a, b) ==
    LET r == Rat(a[1] * b[2], a[2] * b[1])
    IN  <<r[1], r[2], a[3] - b[3]>>

FltLT(a, b) ==
    LET A == a[1] * b[2]
        B == b[1] * a[2]
        k == a[3] - b[3]
    IN  IF k = 0 THEN A < B
        ELSE IF k > 0 THEN B > 0 /\ A <= (B - 1) \div Pow2(k)
        ELSE A \div Pow2(0 - k) < B
FltLE(a, b) == ~FltLT(b, a)
FltMax(a, b) == IF FltLT(a, b) THEN b ELSE a
FltMin(a, b) == IF FltLT(b, a) THEN b ELSE a

\* int x = q * f: the product converted to int (truncation)
TruncMul(q, f) == (q * f[1] * Pow2(f[3])) \div f[2]

SetMax(S) == CHOOSE x \in S : \A y \in S : y <= x
SetMin(S) == CHOOSE x \in S : \A y \in S : x <= y

Max2(a, b) == IF a < b THEN b ELSE a
Min2(a, b) == IF b < a THEN b ELSE a

(***************************************************************************)
(* Taxonomy (nested-set tree) and taxonomy interface.  Node 1 is the root: *)
(*          1                                                              *)
(*        /   \                                                            *)
(*       2     3                                                           *)
(*      / \                                                                *)
(*     4   5                                                               *)
(* leftvalue is assigned on descent and rightvalue on ascent of a          *)
(* depth-first, left-to-right traversal; root_pathlength is the depth.     *)
(***************************************************************************)
Nodes == 1 .. 5
Root == 1
Parent == <<1, 1, 1, 2, 2>>
leftvalue == <<1, 2, 8, 3, 5>>
rightvalue == <<10, 7, 9, 4, 6>>
root_pathlength == <<0, 1, 1, 2, 2>>

getRoot == Root

isParentOf(A, B) == leftvalue[A] <= leftvalue[B] /\ rightvalue[A] >= rightvalue[B]

RECURSIVE getLCA(_, _)
getLCA(A, B) ==
    IF isParentOf(A, B) THEN A
    ELSE IF isParentOf(B, A) THEN B
    ELSE IF root_pathlength[A] >= root_pathlength[B] THEN getLCA(Parent[A], B)
    ELSE getLCA(A, Parent[B])

(***************************************************************************)
(* Sequences and the edit distance (seqan::globalAlignmentScore with       *)
(* MyersBitVector returns the negated edit distance)                       *)
(***************************************************************************)
SeqPool == {<<1, 1>>, <<1, 2>>, <<2, 2>>}
\* the query sequence held by the query storage, and its length
QuerySeq == <<2, 1>>
QueryLen == Len(QuerySeq)
AllSeqs == SeqPool \cup {SubSeq(QuerySeq, a, b) : a, b \in 1 .. QueryLen}

RECURSIVE Levenshtein(_, _)
Levenshtein(a, b) ==
    IF Len(a) = 0 THEN Len(b)
    ELSE IF Len(b) = 0 THEN Len(a)
    ELSE Min2(Min2(Levenshtein(Tail(a), b) + 1, Levenshtein(a, Tail(b)) + 1),
              Levenshtein(Tail(a), Tail(b)) + (IF Head(a) = Head(b) THEN 0 ELSE 1))

EditTable == [a \in AllSeqs, b \in AllSeqs |-> Levenshtein(a, b)]

globalAlignmentScore(a, b) == 0 - EditTable[a, b]

(***************************************************************************)
(* BandFactor (helper class)                                               *)
(***************************************************************************)
\* std::map insert-or-assign on worstscore_per_rank
MapPut(m, k, v) == [x \in (DOMAIN m) \cup {k} |-> IF x = k THEN v ELSE m[x]]

\* BandFactor::sort: std::sort orders data_[1..] by ascending score and leaves
\* the order of equal scores unspecified; every arrangement it may produce.
sortOutcomes(data) ==
    LET RECURSIVE Arrange(_)
        Arrange(I) ==
            IF I = {} THEN {<<>>}
            ELSE LET m == SetMin({data[i][1] : i \in I})
                 IN  UNION {{<<data[i]>> \o rest : rest \in Arrange(I \ {i})} :
                            i \in {j \in I : data[j][1] = m}}
    IN  {<<data[1]>> \o t : t \in Arrange(2 .. Len(data))}

\* variant of the do-while that looks at the rank next above the entry only
disorderRatiosNearest(r, score, worst) ==
    IF r \in DOMAIN worst /\ worst[r] # 0
    THEN {FltDiv(FloatOfInt(score), FloatOfInt(worst[r]))} ELSE {}

\* the ratios float(score)/float(refscore) of one disorder entry (do-while over r)
RECURSIVE disorderRatios(_, _, _)
disorderRatios(r, score, worst) ==
    LET here == IF r \in DOMAIN worst /\ worst[r] # 0
                THEN {FltDiv(FloatOfInt(score), FloatOfInt(worst[r]))} ELSE {}
    IN  IF r = 0 THEN here ELSE here \cup disorderRatios(r - 1, score, worst)

\* bandfactor = std::max(bandfactor, ratio) over the ratios of one entry
RECURSIVE FltMaxOver(_, _)
FltMaxOver(bf, S) ==
    IF S = {} THEN bf
    ELSE LET x == CHOOSE y \in S : TRUE IN FltMaxOver(FltMax(bf, x), S \ {x})

\* the for loop of setBandFactor from entry i on; yields [bf, ratios]
RECURSIVE bandLoop(_, _, _, _, _)
bandLoop(data, i, last_rank, worst, acc) ==
    IF i > Len(data) THEN acc
    ELSE LET score == data[i][1]
             node == getLCA(data[i][2], data[1][2])
             rank == root_pathlength[node]
         IN  IF rank = last_rank THEN bandLoop(data, i + 1, last_rank, worst, acc)
             ELSE IF rank < last_rank
             THEN bandLoop(data, i + 1, rank, MapPut(worst, rank, score), acc)
             ELSE LET rs == disorderRatios(rank - 1, score, worst)
                  IN  bandLoop(data, i + 1, last_rank, worst,
                               [bf |-> FltMaxOver(acc.bf, rs),
                                ratios |-> acc.ratios \cup rs])

\* const float min_bandfactor = 1., max_bandfactor = float(INT_MAX)
min_bandfactor == <<1, 1, 0>>
max_bandfactor == FloatOfInt(IntMax)

\* setBandFactor on sorted data_: [bf |-> bandfactor_, ratios |-> ratios compared]
setBandFactor(data) ==
    LET last_rank == root_pathlength[data[1][2]]
        worst == [x \in {last_rank} |-> data[1][1]]
        res == bandLoop(data, 2, last_rank, worst, [bf |-> min_bandfactor, ratios |-> {}])
    IN  [bf |-> FltMin(res.bf, max_bandfactor), ratios |-> res.ratios]

(***************************************************************************)
(* State                                                                   *)
(***************************************************************************)
VARIABLES
    \* the caller's recordset and its value when predict was entered
    records, records_entry,
    \* RPAPredictionModel members
    exclude_alignments_factor_, reeval_bandwidth_factor_,
    query_sequences_, db_sequences_,
    \* position in predict and the caller's PredictionRecord
    pc, prec,
    \* locals of predict
    n, n_pre, qmaxscore, qrstart, qrstop,
    records_ordered, rrseqs_ordered, rrseqs_qscores, rrseqs_matches,
    qgroup, anchors_support, rtax, lca_allnodes, index_best,
    ival_global, lnode_global, unode_global, outgroup,
    bandfactor_max, lca_root_dist_min,
    index_anchor, loop_i, qscore_ex2,
    pass_0_counter, pass_1_counter, pass_2_counter, fetches,
    \* locals of the last pass-1 anchor iteration
    anchor1,
    \* size of qgroup when pass 1 begins and of outgroup when it ends, anchor
    \* iterations of pass 1 and of pass 2 executed so far
    num_qnodes, num_outgroup, pass_1_anchors, pass_2_anchors,
    \* number of the predict call on this recordset, result of the first call
    call, prec_first,
    \* a BandFactor object
    data_, bandfactor_, ratios_,
    \* two concurrent predict calls on one model: positions, stopwatches
    tpc, tmulti, timers, writers,
    \* a taxonomy under construction: tree, annotations, index values, stage
    \* of its life cycle, result of the unit test
    t_parent, t_annotation, t_leftvalue, t_rightvalue, t_root_pathlength,
    t_is_unclassified, t_stage, alltests

loopVars == <<num_qnodes, num_outgroup, pass_1_anchors, pass_2_anchors>>
mainVars == <<records, records_entry, exclude_alignments_factor_,
              reeval_bandwidth_factor_, query_sequences_, db_sequences_, pc, prec,
              n, n_pre, qmaxscore, qrstart, qrstop, records_ordered, rrseqs_ordered,
              rrseqs_qscores, rrseqs_matches, qgroup, anchors_support, rtax,
              lca_allnodes, index_best, ival_global, lnode_global, unode_global,
              outgroup, bandfactor_max, lca_root_dist_min, index_anchor, loop_i,
              qscore_ex2, pass_0_counter, pass_1_counter, pass_2_counter, fetches,
              anchor1, call, prec_first, loopVars>>
bfVars == <<data_, bandfactor_, ratios_>>
concVars == <<tpc, tmulti, timers, writers>>
taxVars == <<t_parent, t_annotation, t_leftvalue, t_rightvalue, t_root_pathlength,
             t_is_unclassified, t_stage, alltests>>
vars == <<mainVars, bfVars, concVars, taxVars>>

(***************************************************************************)
(* RPAPredictionModel::predict, screening and shortcuts (lines 124-179)    *)
(* Indices into records_ordered and the parallel arrays are 1-based here   *)
(* (0-based in the code).                                                  *)
(***************************************************************************)
Unfiltered(rs) == {i \in DOMAIN rs : ~rs[i].filtered}

\* variant: the maximum is taken over all records, filtered ones included
qmaxscoreOfAll(rs) ==
    LET S == {rs[i].score : i \in DOMAIN rs}
    IN  IF S = {} THEN 0 ELSE Max2(0, SetMax(S))

\* float qmaxscore = .0; max over the unfiltered records
qmaxscoreOf(rs) ==
    LET S == {rs[i].score : i \in Unfiltered(rs)}
    IN  IF S = {} THEN 0 ELSE Max2(0, SetMax(S))

\* variant: the score is compared with qmaxscore / exclude_alignments_factor_
belowQuotient(score, qmax, f) == score * f[1] < qmax * f[2]

\* getScore() < qmaxscore * exclude_alignments_factor_
belowThreshold(score, qmax, f) == score * f[2] < qmax * f[1]

\* variant: the loop does not test isFiltered()
screenedOutUnguarded(rs, f) ==
    {i \in DOMAIN rs : belowThreshold(rs[i].score, qmaxscoreOf(rs), f)}

\* the records for which the screening loop calls filterOut() and counts n down
screenedOut(rs, f) ==
    {i \in DOMAIN rs :
        ~rs[i].filtered /\ belowThreshold(rs[i].score, qmaxscoreOf(rs), f)}

\* variant: the loop assigns the flag of every record from the comparison
screenRecordsAssign(rs, f) ==
    LET qmax == qmaxscoreOf(rs)
    IN  [i \in DOMAIN rs |->
            [rs[i] EXCEPT !.filtered = belowThreshold(rs[i].score, qmax, f)]]

\* the screening loop: filterOut() on every unfiltered record below the threshold
screenRecords(rs, f) ==
    LET out == screenedOut(rs, f)
    IN  [i \in DOMAIN rs |->
            IF i \in out THEN [rs[i] EXCEPT !.filtered = TRUE] ELSE rs[i]]

\* if(n==0), if(n==1)
isEmptyCase(nn) == nn = 0
isSingleCase(nn) == nn = 1

firstUnmaskedIter(rs) == SetMin(Unfiltered(rs))

PrecInit == [qbegin |-> 0, qend |-> 0, ival |-> <<0, 1>>, lower |-> NULL,
             upper |-> NULL, support |-> 0, best |-> NULL, unclassified |-> FALSE]

setUnclassified(p) == [p EXCEPT !.unclassified = TRUE]

\* variant: the record's node is given as upper node too
singlePredictionNoRoot(p, rec) ==
    [p EXCEPT !.qbegin = rec.qstart, !.qend = rec.qstop, !.ival = <<1, 1>>,
              !.lower = rec.node, !.upper = rec.node, !.support = rec.identities,
              !.best = rec.node]

\* the prediction of the n == 1 shortcut
singlePrediction(p, rec) ==
    [p EXCEPT !.qbegin = rec.qstart, !.qend = rec.qstop, !.ival = <<1, 1>>,
              !.lower = rec.node, !.upper = getRoot, !.support = rec.identities,
              !.best = rec.node]

localsVars == <<qrstart, qrstop, records_ordered, rrseqs_ordered, rrseqs_qscores,
                rrseqs_matches, qgroup, anchors_support, rtax, lca_allnodes,
                index_best, ival_global, lnode_global, unode_global, outgroup,
                bandfactor_max, lca_root_dist_min, index_anchor, loop_i, qscore_ex2,
                pass_0_counter, pass_1_counter, pass_2_counter, anchor1, loopVars>>
modelVars == <<exclude_alignments_factor_, reeval_bandwidth_factor_,
               query_sequences_, db_sequences_>>
callVars == <<call, prec_first, records_entry>>

PredictScreen ==
    /\ pc = "entry"
    /\ \E npre \in {Cardinality(Unfiltered(records))},
          rs2 \in {screenRecords(records, exclude_alignments_factor_)} :
       \E nn \in {npre - Cardinality(screenedOut(records, exclude_alignments_factor_))} :
           /\ records' = rs2
           /\ n' = nn
           /\ n_pre' = npre
           /\ qmaxscore' = qmaxscoreOf(records)
           /\ IF isEmptyCase(nn)
              THEN prec' = setUnclassified(prec) /\ pc' = "done"
              ELSE IF isSingleCase(nn)
              THEN /\ prec' = singlePrediction(prec, rs2[firstUnmaskedIter(rs2)])
                   /\ pc' = "done"
              ELSE prec' = prec /\ pc' = "retrieve"
    /\ UNCHANGED <<localsVars, modelVars, callVars, fetches, bfVars, concVars, taxVars>>

(***************************************************************************)
(* query range and segment retrieval (lines 181-254)                       *)
(***************************************************************************)
RECURSIVE OrderedSeq(_)
OrderedSeq(S) == IF S = {} THEN <<>>
                 ELSE LET m == SetMin(S) IN <<m>> \o OrderedSeq(S \ {m})

\* query_sequences_.getSequence(qid, start, stop), 1-based inclusive
getQuerySequence(q, start, stop) == SubSeq(q, start, stop)

PredictRetrieve ==
    /\ pc = "retrieve"
    /\ LET U == Unfiltered(records)
           ord == OrderedSeq(U)
           qs == SetMin({records[i].qstart : i \in U})
           qe == SetMax({records[i].qstop : i \in U})
       IN  /\ qrstart' = qs
           /\ qrstop' = qe
           /\ records_ordered' = ord
           /\ rrseqs_ordered' = [k \in 1 .. Len(ord) |-> db_sequences_[ord[k]]]
           /\ fetches' = fetches + 1 + Len(ord)
           /\ lca_allnodes' = records[ord[1]].node
    /\ qgroup' = {}
    /\ anchors_support' = 0
    /\ rtax' = NULL
    /\ rrseqs_qscores' = <<>>
    /\ rrseqs_matches' = <<>>
    /\ pc' = "pass0"
    /\ UNCHANGED <<records, prec, n, n_pre, qmaxscore, index_best, ival_global,
                   lnode_global, unode_global, outgroup, bandfactor_max,
                   lca_root_dist_min, index_anchor, loop_i, qscore_ex2,
                   pass_0_counter, pass_1_counter, pass_2_counter, anchor1,
                   loopVars, modelVars, callVars, bfVars, concVars, taxVars>>

(***************************************************************************)
(* pass 0: re-alignment to the most similar reference segments             *)
(* (lines 256-322)                                                         *)
(***************************************************************************)
\* variant: strict comparison with the re-evaluation threshold
exceedsReevalThreshold(score, qmax, f) == score * f[2] > qmax * f[1]

\* getScore() >= reeval_bandwidth_factor_ * qmaxscore
reachesReevalThreshold(score, qmax, f) == score * f[2] >= qmax * f[1]

\* score and matches of one record: [score, matches, ingroup, aligned]
pass0Score(rec, rrseq, qrseq, qrlength, qmax, f) ==
    IF rec.alen = qrlength /\ rec.identities = qrlength
    THEN [score |-> 0, matches |-> rec.identities, ingroup |-> TRUE, aligned |-> 0]
    ELSE IF reachesReevalThreshold(rec.score, qmax, f)
    THEN LET sc == 0 - globalAlignmentScore(rrseq, qrseq)
         IN  [score |-> sc,
              matches |-> Max2(Max2(Len(rrseq), Len(qrseq)) - sc, rec.identities),
              ingroup |-> TRUE, aligned |-> 1]
    ELSE [score |-> IntMax, matches |-> 0, ingroup |-> FALSE, aligned |-> 0]

\* index_best moves to i on a smaller score, or an equal score with more matches
betterThanBest(score, matches, bestscore, bestmatches) ==
    score < bestscore \/ (score = bestscore /\ matches > bestmatches)

RECURSIVE pass0Loop(_, _, _, _, _, _, _, _)
pass0Loop(i, recs, rrseqs, qrseq, qrlength, qmax, f, acc) ==
    IF i > Len(recs) THEN acc
    ELSE LET r == pass0Score(recs[i], rrseqs[i], qrseq, qrlength, qmax, f)
             qs == Append(acc.qscores, r.score)
             ms == Append(acc.matches, r.matches)
             best == IF betterThanBest(r.score, r.matches,
                                       qs[acc.index_best], ms[acc.index_best])
                     THEN i ELSE acc.index_best
         IN  pass0Loop(i + 1, recs, rrseqs, qrseq, qrlength, qmax, f,
                 [qgroup |-> IF r.ingroup THEN acc.qgroup \cup {i} ELSE acc.qgroup,
                  qscores |-> qs, matches |-> ms, index_best |-> best,
                  support |-> Max2(acc.support, r.matches),
                  lca |-> getLCA(acc.lca, recs[i].node),
                  counter |-> acc.counter + r.aligned])

\* only keep the best-scoring reference sequences
keepBest(qg, qs, ms, best) == {i \in qg : qs[i] = qs[best] /\ ms[i] = ms[best]}

RECURSIVE foldLCA(_, _, _)
foldLCA(start, S, recs) ==
    IF S = {} THEN start
    ELSE LET m == SetMin(S) IN foldLCA(getLCA(start, recs[m].node), S \ {m}, recs)

PredictPass0 ==
    /\ pc = "pass0"
    /\ \E recs \in {[k \in 1 .. n |-> records[records_ordered[k]]]},
          qrseq \in {getQuerySequence(query_sequences_, qrstart, qrstop)} :
       \E res \in {pass0Loop(1, recs, rrseqs_ordered, qrseq, qrstop - qrstart + 1,
                              qmaxscore, reeval_bandwidth_factor_,
                              [qgroup |-> {}, qscores |-> <<>>, matches |-> <<>>,
                               index_best |-> 1, support |-> anchors_support,
                               lca |-> lca_allnodes, counter |-> 0])} :
       \E kept \in {keepBest(res.qgroup, res.qscores, res.matches, res.index_best)} :
       \E rt \in {foldLCA(recs[res.index_best].node, kept, recs)} :
           /\ rrseqs_qscores' = res.qscores
           /\ rrseqs_matches' = res.matches
           /\ index_best' = res.index_best
           /\ anchors_support' = res.support
           /\ lca_allnodes' = res.lca
           /\ pass_0_counter' = res.counter
           /\ qgroup' = kept
           /\ num_qnodes' = Cardinality(kept)
           /\ rtax' = rt
           /\ lnode_global' = rt
           /\ unode_global' = rt
           /\ pc' = IF kept = {} THEN "assert_failed" ELSE "pass1"
    /\ ival_global' = <<0, 1>>
    /\ outgroup' = {}
    /\ bandfactor_max' = <<1, 1, 0>>
    /\ lca_root_dist_min' = SmallUIntMax
    /\ UNCHANGED <<records, prec, n, n_pre, qmaxscore, qrstart, qrstop,
                   records_ordered, rrseqs_ordered, index_anchor, loop_i, qscore_ex2,
                   pass_1_counter, pass_2_counter, fetches, anchor1,
                   num_outgroup, pass_1_anchors, pass_2_anchors,
                   modelVars, callVars, bfVars, concVars, taxVars>>

(***************************************************************************)
(* pass 1: best reference alignment, one anchor per step (lines 324-513)   *)
(***************************************************************************)
\* update query alignment scores using triangle relation
triangleUpdate(anchor_qscore, matches_i) == anchor_qscore = 0 /\ matches_i # 0

\* score <= qscore: the record extends the lower node
inIngroup(score, qscore) == score <= qscore

\* the loop "align all others <=> anchor", i from n down to 1
RECURSIVE pass1Loop(_, _, _, _, _, _)
pass1Loop(i, anchor, qscore, recs, rrseqs, st) ==
    IF st.lnode = getRoot \/ i = 0 THEN st
    ELSE LET cnode == recs[i].node
             shortcut == st.qscores[i] = 0 /\ st.qscores[anchor] = 0
             aligned == i # anchor /\ ~shortcut
             score == IF i = anchor THEN 0
                      ELSE IF shortcut THEN st.qscores[i]
                      ELSE 0 - globalAlignmentScore(rrseqs[i], rrseqs[anchor])
             matches == Max2(Len(rrseqs[i]), Len(rrseqs[anchor])) - score
             upd == aligned /\ triangleUpdate(st.qscores[anchor], st.matches[i])
             st1 == [st EXCEPT
                        !.qscores = IF upd THEN [@ EXCEPT ![i] = score] ELSE @,
                        !.matches = IF upd THEN [@ EXCEPT ![i] = matches] ELSE @,
                        !.counter = IF aligned THEN @ + 1 ELSE @,
                        !.data = Append(@, <<score, cnode>>)]
             st2 == IF score = 0 THEN [st1 EXCEPT !.qgroup = @ \ {i}]
                    ELSE IF inIngroup(score, qscore)
                    THEN [st1 EXCEPT !.lnode = getLCA(@, cnode),
                                     !.lscore = IF score > @ THEN score ELSE @]
                    ELSE [st1 EXCEPT !.uscore = IF score < @ THEN score ELSE @,
                                     !.tmp = Append(@, <<i, score>>)]
         IN  pass1Loop(i - 1, anchor, qscore, recs, rrseqs, st2)

\* variant of the walk in which an entry within the band takes the smaller score
RECURSIVE upperWalkMin(_, _, _, _)
upperWalkMin(list, k, qscore_ex, acc) ==
    IF k > Len(list) THEN acc
    ELSE LET score == list[k][2]
         IN  IF score > qscore_ex
             THEN IF score > acc.mus
                  THEN upperWalkMin(list, k + 1, qscore_ex, acc)
                  ELSE upperWalkMin(list, k + 1, qscore_ex,
                           [mus |-> IF score < acc.mus THEN score ELSE acc.mus,
                            kept |-> Append(acc.kept, list[k])])
             ELSE upperWalkMin(list, k + 1, qscore_ex,
                      [mus |-> IF acc.mus > qscore_ex THEN score
                               ELSE Min2(acc.mus, score),
                       kept |-> Append(acc.kept, list[k])])

\* the walk over outgroup_tmp that settles min_upper_score: [mus, kept]
RECURSIVE upperWalk(_, _, _, _)
upperWalk(list, k, qscore_ex, acc) ==
    IF k > Len(list) THEN acc
    ELSE LET score == list[k][2]
         IN  IF score > qscore_ex
             THEN IF score > acc.mus
                  THEN upperWalk(list, k + 1, qscore_ex, acc)
                  ELSE upperWalk(list, k + 1, qscore_ex,
                           [mus |-> IF score < acc.mus THEN score ELSE acc.mus,
                            kept |-> Append(acc.kept, list[k])])
             ELSE upperWalk(list, k + 1, qscore_ex,
                      [mus |-> IF acc.mus > qscore_ex THEN score
                               ELSE Max2(acc.mus, score),
                       kept |-> Append(acc.kept, list[k])])

\* variant: the upper node is overwritten by the outgroup taxon
replaceUpper(cnode, unode) == cnode

\* unode = getLCA(cnode, unode)
addToUpper(cnode, unode) == getLCA(cnode, unode)

\* variant of the push loop that keeps the outgroup when a shallower LCA appears
RECURSIVE pushLoopNoClear(_, _, _, _, _, _)
pushLoopNoClear(list, k, mus, recs, rt, acc) ==
    IF k > Len(list) THEN acc
    ELSE LET i == list[k][1]
             score == list[k][2]
             cnode == recs[i].node
         IN  IF score > mus THEN pushLoopNoClear(list, k + 1, mus, recs, rt, acc)
             ELSE LET un == addToUpper(cnode, acc.unode)
                      d == root_pathlength[getLCA(cnode, rt)]
                  IN  IF d > acc.dmin
                      THEN pushLoopNoClear(list, k + 1, mus, recs, rt,
                                           [acc EXCEPT !.unode = un])
                      ELSE pushLoopNoClear(list, k + 1, mus, recs, rt,
                               [unode |-> un, outgroup |-> acc.outgroup \cup {i},
                                dmin |-> d])

\* push elements from temporary to outgroup set: [unode, outgroup, dmin]
RECURSIVE pushLoop(_, _, _, _, _, _)
pushLoop(list, k, mus, recs, rt, acc) ==
    IF k > Len(list) THEN acc
    ELSE LET i == list[k][1]
             score == list[k][2]
             cnode == recs[i].node
         IN  IF score > mus THEN pushLoop(list, k + 1, mus, recs, rt, acc)
             ELSE LET un == addToUpper(cnode, acc.unode)
                      d == root_pathlength[getLCA(cnode, rt)]
                  IN  IF d > acc.dmin
                      THEN pushLoop(list, k + 1, mus, recs, rt, [acc EXCEPT !.unode = un])
                      ELSE pushLoop(list, k + 1, mus, recs, rt,
                               [unode |-> un,
                                outgroup |-> (IF d < acc.dmin THEN {} ELSE acc.outgroup)
                                                 \cup {i},
                                dmin |-> d])

\* variant: without an outgroup record the interpolation value stays 0
anchorIvalZero(unode, lnode, lscore, uscore, qscore) ==
    IF unode = NULL
    THEN [unode |-> getRoot, uscore |-> 0 - 1, ival |-> <<0, 1>>]
    ELSE IF unode # lnode /\ lscore < qscore
    THEN [unode |-> unode, uscore |-> uscore,
          ival |-> Rat(qscore - lscore, uscore - lscore)]
    ELSE [unode |-> unode, uscore |-> uscore, ival |-> <<0, 1>>]

\* variant: without an outgroup record the upper node is the lower node
anchorIvalNoRoot(unode, lnode, lscore, uscore, qscore) ==
    IF unode = NULL
    THEN [unode |-> lnode, uscore |-> 0 - 1, ival |-> <<1, 1>>]
    ELSE IF unode # lnode /\ lscore < qscore
    THEN [unode |-> unode, uscore |-> uscore,
          ival |-> Rat(qscore - lscore, uscore - lscore)]
    ELSE [unode |-> unode, uscore |-> uscore, ival |-> <<0, 1>>]

\* variant: numerator and denominator of the interpolation value exchanged
anchorIvalSwapped(unode, lnode, lscore, uscore, qscore) ==
    IF unode = NULL
    THEN [unode |-> getRoot, uscore |-> 0 - 1, ival |-> <<1, 1>>]
    ELSE IF unode # lnode /\ lscore < qscore
    THEN [unode |-> unode, uscore |-> uscore,
          ival |-> Rat(uscore - lscore, qscore - lscore)]
    ELSE [unode |-> unode, uscore |-> uscore, ival |-> <<0, 1>>]

\* adjust interpolation value and upper node: [unode, uscore, ival]
anchorIval(unode, lnode, lscore, uscore, qscore) ==
    IF unode = NULL
    THEN [unode |-> getRoot, uscore |-> 0 - 1, ival |-> <<1, 1>>]
    ELSE IF unode # lnode /\ lscore < qscore
    THEN [unode |-> unode, uscore |-> uscore,
          ival |-> Rat(qscore - lscore, uscore - lscore)]
    ELSE [unode |-> unode, uscore |-> uscore, ival |-> <<0, 1>>]

\* *qgroup.begin(), *outgroup.begin(): the smallest element of a std::set
popFirst(S) == SetMin(S)

\* variant: the loop goes on at the root while anchors are left
pass1ContinuesAtRoot(qg, lg) == qg # {}

\* while (! qgroup.empty() && lnode_global != this->taxinter_.getRoot())
pass1Continues(qg, lg) == qg # {} /\ lg # getRoot

PredictPass1Anchor ==
    /\ pc = "pass1"
    /\ \E recs \in {[k \in 1 .. n |-> records[records_ordered[k]]]},
          anchor \in {popFirst(qgroup)} :
       \E qscore \in {rrseqs_qscores[anchor]} :
       \E st \in {pass1Loop(n, anchor, qscore, recs, rrseqs_ordered,
                       [lnode |-> rtax, lscore |-> 0, uscore |-> IntMax, tmp |-> <<>>,
                        qgroup |-> qgroup \ {anchor}, qscores |-> rrseqs_qscores,
                        matches |-> rrseqs_matches,
                        data |-> <<<<0, recs[anchor].node>>>>, counter |-> 0])} :
       \E sorted \in sortOutcomes(st.data) :
       \E bandfactor \in {setBandFactor(sorted).bf} :
       \E qscore_ex \in {TruncMul(qscore, bandfactor)} :
       \E walk \in {upperWalk(st.tmp, 1, qscore_ex, [mus |-> IntMax, kept |-> <<>>])} :
       \E unode0 \in {IF walk.mus # IntMax THEN st.lnode ELSE NULL} :
       \E push \in {pushLoop(walk.kept, 1, walk.mus, recs, rtax,
                         [unode |-> unode0, outgroup |-> outgroup,
                          dmin |-> lca_root_dist_min])} :
       \E fin \in {anchorIval(push.unode, st.lnode, st.lscore, st.uscore, qscore)} :
       \E lg \in {getLCA(lnode_global, st.lnode)} :
                 /\ bandfactor_max' = FltMax(bandfactor_max, bandfactor)
                 /\ rrseqs_qscores' = st.qscores
                 /\ rrseqs_matches' = st.matches
                 /\ qgroup' = st.qgroup
                 /\ pass_1_counter' = pass_1_counter + st.counter
                 /\ outgroup' = push.outgroup
                 /\ lca_root_dist_min' = push.dmin
                 /\ ival_global' = RatMax(fin.ival, ival_global)
                 /\ unode_global' = getLCA(unode_global, fin.unode)
                 /\ lnode_global' = lg
                 /\ anchor1' = [index_anchor |-> anchor, qscore |-> qscore,
                                lnode |-> st.lnode, unode |-> fin.unode,
                                lscore |-> st.lscore, uscore |-> fin.uscore,
                                ival |-> fin.ival, outgroup_tmp |-> st.tmp,
                                kept |-> walk.kept, min_upper_score |-> walk.mus,
                                bandfactor |-> bandfactor, qscore_ex |-> qscore_ex]
                 /\ pass_1_anchors' = pass_1_anchors + 1
                 /\ IF pass1Continues(st.qgroup, lg)
                    THEN pc' = "pass1" /\ num_outgroup' = num_outgroup
                    ELSE pc' = "pass2" /\ num_outgroup' = Cardinality(push.outgroup)
    /\ UNCHANGED <<records, prec, n, n_pre, qmaxscore, qrstart, qrstop,
                   records_ordered, rrseqs_ordered, anchors_support, rtax,
                   lca_allnodes, index_best, index_anchor, loop_i, qscore_ex2,
                   pass_0_counter, pass_2_counter, fetches,
                   num_qnodes, pass_2_anchors,
                   modelVars, callVars, bfVars, concVars, taxVars>>

(***************************************************************************)
(* pass 2: stable upper node estimation (lines 520-609)                    *)
(***************************************************************************)
\* variant: the anchor iteration is never skipped
pass2SkipNever(ug, lca_all) == FALSE

\* if( unode_global == lca_allnodes ) ... continue
pass2Skip(ug, lca_all) == ug = lca_all

\* isParentOf(unode_global, cnode) || cnode == unode_global
alreadyCovered(ug, cnode) == isParentOf(ug, cnode) \/ cnode = ug

\* the head of one while iteration: pop the anchor, skip or prepare the loop
PredictPass2Pop ==
    /\ pc = "pass2"
    /\ outgroup # {}
    /\ LET a == popFirst(outgroup)
           qrseq == getQuerySequence(query_sequences_, qrstart, qrstop)
           need == rrseqs_matches[a] = 0
           score == 0 - globalAlignmentScore(rrseqs_ordered[a], qrseq)
           matches == Max2(Len(rrseqs_ordered[a]), Len(qrseq)) - score
           qs == IF need THEN [rrseqs_qscores EXCEPT ![a] = score] ELSE rrseqs_qscores
       IN  /\ outgroup' = outgroup \ {a}
           /\ pass_2_anchors' = pass_2_anchors + 1
           /\ IF pass2Skip(unode_global, lca_allnodes)
              THEN /\ pc' = "pass2"
                   /\ UNCHANGED <<rrseqs_qscores, rrseqs_matches, pass_2_counter,
                                  index_anchor, loop_i, qscore_ex2>>
              ELSE /\ rrseqs_qscores' = qs
                   /\ rrseqs_matches' = IF need
                                         THEN [rrseqs_matches EXCEPT ![a] = matches]
                                         ELSE rrseqs_matches
                   /\ pass_2_counter' = pass_2_counter + (IF need THEN 1 ELSE 0)
                   /\ index_anchor' = a
                   /\ qscore_ex2' = TruncMul(qs[a], bandfactor_max)
                   /\ loop_i' = 1
                   /\ pc' = "pass2loop"
    /\ UNCHANGED <<records, prec, n, n_pre, qmaxscore, qrstart, qrstop,
                   records_ordered, rrseqs_ordered, qgroup, anchors_support, rtax,
                   lca_allnodes, index_best, ival_global, lnode_global, unode_global,
                   bandfactor_max, lca_root_dist_min, pass_0_counter, pass_1_counter,
                   fetches, anchor1, num_qnodes, num_outgroup, pass_1_anchors,
                   modelVars, callVars, bfVars, concVars, taxVars>>

\* one iteration of the loop "align all others <=> anchor" of pass 2
PredictPass2Step ==
    /\ pc = "pass2loop"
    /\ LET i == loop_i
           cnode == records[records_ordered[i]].node
           covered == alreadyCovered(unode_global, cnode)
           aligned == i # index_anchor /\ ~covered
           score == IF i = index_anchor THEN 0
                    ELSE IF covered THEN IntMax
                    ELSE 0 - globalAlignmentScore(rrseqs_ordered[i],
                                                  rrseqs_ordered[index_anchor])
       IN  /\ rrseqs_qscores' = IF aligned THEN [rrseqs_qscores EXCEPT ![i] = score]
                                 ELSE rrseqs_qscores
           /\ pass_2_counter' = pass_2_counter + (IF aligned THEN 1 ELSE 0)
           /\ outgroup' = IF score = 0 THEN outgroup \ {i} ELSE outgroup
           /\ unode_global' = IF score <= qscore_ex2 THEN getLCA(unode_global, cnode)
                               ELSE unode_global
           /\ IF i = n THEN pc' = "pass2" /\ loop_i' = loop_i
              ELSE pc' = "pass2loop" /\ loop_i' = i + 1
    /\ UNCHANGED <<records, prec, n, n_pre, qmaxscore, qrstart, qrstop,
                   records_ordered, rrseqs_ordered, rrseqs_matches, qgroup,
                   anchors_support, rtax, lca_allnodes, index_best, ival_global,
                   lnode_global, bandfactor_max, lca_root_dist_min, index_anchor,
                   qscore_ex2, pass_0_counter, pass_1_counter, fetches, anchor1,
                   loopVars, modelVars, callVars, bfVars, concVars, taxVars>>

(***************************************************************************)
(* the end of predict (lines 615-627)                                      *)
(***************************************************************************)
\* variant: the combined value is kept when both nodes coincide
finalIvalKept(ug, lg, ival) == ival

\* if(unode_global == lnode_global) ival_global = 1.
finalIval(ug, lg, ival) == IF ug = lg THEN <<1, 1>> ELSE ival

PredictFinalize ==
    /\ pc = "pass2"
    /\ outgroup = {}
    /\ ival_global' = finalIval(unode_global, lnode_global, ival_global)
    /\ prec' = [prec EXCEPT !.qbegin = qrstart, !.qend = qrstop,
                            !.ival = finalIval(unode_global, lnode_global, ival_global),
                            !.lower = lnode_global, !.upper = unode_global,
                            !.support = anchors_support, !.best = rtax]
    /\ pc' = "done"
    /\ UNCHANGED <<records, n, n_pre, qmaxscore, qrstart, qrstop, records_ordered,
                   rrseqs_ordered, rrseqs_qscores, rrseqs_matches, qgroup,
                   anchors_support, rtax, lca_allnodes, index_best, lnode_global,
                   unode_global, outgroup, bandfactor_max, lca_root_dist_min,
                   index_anchor, loop_i, qscore_ex2, pass_0_counter, pass_1_counter,
                   pass_2_counter, fetches, anchor1, loopVars,
                   modelVars, callVars, bfVars, concVars, taxVars>>

(***************************************************************************)
(* Initial states                                                          *)
(***************************************************************************)
ExcludeFactors == {Rat(k, FactorDen) : k \in 1 .. FactorDen}
\* reeval_bandwidth_factor_ = 1 - reeval_bandwidth, reeval_bandwidth in [0,1)
ReevalFactors == {Rat(FactorDen - k, FactorDen) : k \in 0 .. (FactorDen - 1)}

RefNodes == {3, 4, 5}

\* an alignment record together with the segment the storage returns for it:
\* identities grow with the score; an alignment with all positions identical
\* either has the length of the query (the segment is then the query
\* sequence) or holds a gap (length + 1); records filtered on entry are never
\* read and take one value
HitDomain ==
    {h \in [score : 0 .. MaxScore, filtered : BOOLEAN, node : RefNodes,
            qstart : {1}, qstop : {QueryLen}, identities : 0 .. QueryLen,
            alen : {QueryLen, QueryLen + 1}, seq : SeqPool \cup {QuerySeq}] :
        /\ h.identities = Min2(h.score, QueryLen)
        /\ h.alen > QueryLen => h.identities = QueryLen
        /\ h.seq = QuerySeq <=> (h.alen = QueryLen /\ h.identities = QueryLen)
        /\ h.filtered => (h.node = 3 /\ h.seq = <<1, 1>> /\ h.score = MaxScore
                              /\ h.alen > QueryLen)}

recordOf(h) == [score |-> h.score, filtered |-> h.filtered, node |-> h.node,
                qstart |-> h.qstart, qstop |-> h.qstop,
                identities |-> h.identities, alen |-> h.alen]

Anchor1Init == [index_anchor |-> 0, qscore |-> 0, lnode |-> NULL, unode |-> NULL,
                lscore |-> 0, uscore |-> 0, ival |-> <<0, 1>>, outgroup_tmp |-> <<>>,
                kept |-> <<>>, min_upper_score |-> 0, bandfactor |-> <<1, 1, 0>>,
                qscore_ex |-> 0]

LocalsInit ==
    /\ n = 0 /\ n_pre = 0 /\ qmaxscore = 0 /\ qrstart = 0 /\ qrstop = 0
    /\ records_ordered = <<>> /\ rrseqs_ordered = <<>>
    /\ rrseqs_qscores = <<>> /\ rrseqs_matches = <<>>
    /\ qgroup = {} /\ anchors_support = 0 /\ rtax = NULL /\ lca_allnodes = NULL
    /\ index_best = 0 /\ ival_global = <<0, 1>> /\ lnode_global = NULL
    /\ unode_global = NULL /\ outgroup = {} /\ bandfactor_max = <<1, 1, 0>>
    /\ lca_root_dist_min = SmallUIntMax /\ index_anchor = 0 /\ loop_i = 0
    /\ qscore_ex2 = 0 /\ pass_0_counter = 0 /\ pass_1_counter = 0
    /\ pass_2_counter = 0 /\ fetches = 0 /\ anchor1 = Anchor1Init
    /\ num_qnodes = 0 /\ num_outgroup = 0 /\ pass_1_anchors = 0 /\ pass_2_anchors = 0

BFIdle == data_ = <<>> /\ bandfactor_ = <<0 - 1, 1, 0>> /\ ratios_ = {}
ConcIdle == tpc = <<>> /\ tmulti = <<>> /\ timers = <<>> /\ writers = <<>>
TaxIdle ==
    /\ t_parent = <<>> /\ t_annotation = <<>> /\ t_leftvalue = <<>>
    /\ t_rightvalue = <<>> /\ t_root_pathlength = <<>> /\ t_is_unclassified = <<>>
    /\ t_stage = "none" /\ alltests = TRUE

Init ==
    /\ \E cnt \in 0 .. MaxRecords :
          \E hits \in [1 .. cnt -> HitDomain] :
              /\ records = [i \in 1 .. cnt |-> recordOf(hits[i])]
              /\ db_sequences_ = [i \in 1 .. cnt |-> hits[i].seq]
    /\ records_entry = records
    /\ exclude_alignments_factor_ \in ExcludeFactors
    /\ reeval_bandwidth_factor_ \in ReevalFactors
    /\ query_sequences_ = QuerySeq
    /\ pc = "entry"
    /\ prec = PrecInit
    /\ call = 1
    /\ prec_first = PrecInit
    /\ LocalsInit
    /\ BFIdle
    /\ ConcIdle
    /\ TaxIdle

\* the caller runs predict once more on the recordset as the first call left it
PredictAgain ==
    /\ pc = "done"
    /\ call = 1
    /\ call' = 2
    /\ prec_first' = prec
    /\ prec' = PrecInit
    /\ records_entry' = records
    /\ pc' = "entry"
    /\ n' = 0 /\ n_pre' = 0 /\ qmaxscore' = 0 /\ qrstart' = 0 /\ qrstop' = 0
    /\ records_ordered' = <<>> /\ rrseqs_ordered' = <<>>
    /\ rrseqs_qscores' = <<>> /\ rrseqs_matches' = <<>>
    /\ qgroup' = {} /\ anchors_support' = 0 /\ rtax' = NULL /\ lca_allnodes' = NULL
    /\ index_best' = 0 /\ ival_global' = <<0, 1>> /\ lnode_global' = NULL
    /\ unode_global' = NULL /\ outgroup' = {} /\ bandfactor_max' = <<1, 1, 0>>
    /\ lca_root_dist_min' = SmallUIntMax /\ index_anchor' = 0 /\ loop_i' = 0
    /\ qscore_ex2' = 0 /\ pass_0_counter' = 0 /\ pass_1_counter' = 0
    /\ pass_2_counter' = 0 /\ fetches' = 0 /\ anchor1' = Anchor1Init
    /\ num_qnodes' = 0 /\ num_outgroup' = 0 /\ pass_1_anchors' = 0 /\ pass_2_anchors' = 0
    /\ UNCHANGED <<records, modelVars, bfVars, concVars, taxVars>>

Next ==
    \/ PredictScreen
    \/ PredictRetrieve
    \/ PredictPass0
    \/ PredictPass1Anchor
    \/ PredictPass2Pop
    \/ PredictPass2Step
    \/ PredictFinalize

Spec == Init /\ [][Next]_vars

NextTwice == Next \/ PredictAgain

SpecTwice == Init /\ [][NextTwice]_vars

(***************************************************************************)
(* A BandFactor object on its own: any addSequence calls after the anchor  *)
(* (first entry, score 0 as in line 340), getFactor at any time after it   *)
(***************************************************************************)
MainIdle ==
    /\ records = <<>> /\ records_entry = <<>> /\ db_sequences_ = <<>>
    /\ exclude_alignments_factor_ = <<1, 1>> /\ reeval_bandwidth_factor_ = <<1, 1>>
    /\ query_sequences_ = QuerySeq
    /\ pc = "idle" /\ prec = PrecInit /\ call = 1 /\ prec_first = PrecInit
    /\ LocalsInit

BFScores == (0 .. MaxBFScore) \cup {IntMax}

InitBF == MainIdle /\ BFIdle /\ ConcIdle /\ TaxIdle

BFAddSequence ==
    /\ Len(data_) < 1 + MaxEntries
    /\ \E score \in (IF data_ = <<>> THEN {0} ELSE BFScores), node \in Nodes :
          data_' = Append(data_, <<score, node>>)
    /\ UNCHANGED <<bandfactor_, ratios_, mainVars, concVars, taxVars>>

BFGetFactor ==
    /\ data_ # <<>>
    /\ IF bandfactor_[1] < 0
       THEN \E sorted \in sortOutcomes(data_) :
              LET res == setBandFactor(sorted)
              IN  /\ data_' = sorted
                  /\ bandfactor_' = res.bf
                  /\ ratios_' = res.ratios
       ELSE UNCHANGED <<data_, bandfactor_, ratios_>>
    /\ UNCHANGED <<mainVars, concVars, taxVars>>

NextBF == BFAddSequence \/ BFGetFactor

SpecBF == InitBF /\ [][NextBF]_vars

(***************************************************************************)
(* Two predict calls running concurrently on one RPAPredictionModel, each  *)
(* on its own recordset: the accesses to the members of the model.  The    *)
(* only members predict writes are the four stopwatches (lines 221, 248,   *)
(* 258, 311, 325, 512, 521, 607).                                          *)
(***************************************************************************)
Threads == {1, 2}
TimedPhases == <<"retrieve", "pass0", "pass1", "pass2">>
Stopwatches == {"measure_sequence_retrieval_", "measure_pass_0_alignment_",
                "measure_pass_1_alignment_", "measure_pass_2_alignment_"}

stopwatchOf(phase) ==
    CASE phase = "retrieve" -> "measure_sequence_retrieval_"
      [] phase = "pass0" -> "measure_pass_0_alignment_"
      [] phase = "pass1" -> "measure_pass_1_alignment_"
      [] phase = "pass2" -> "measure_pass_2_alignment_"

phaseAfter(phase) ==
    CASE phase = "retrieve" -> "pass0"
      [] phase = "pass0" -> "pass1"
      [] phase = "pass1" -> "pass2"
      [] phase = "pass2" -> "done"

\* StopWatchCPUTime::start and ::stop
stopwatchStart(w) == [w EXCEPT !.running = TRUE]
stopwatchStop(w) == [running |-> FALSE, laps |-> w.laps + 1]

InitConc ==
    /\ MainIdle /\ BFIdle /\ TaxIdle
    /\ tpc = [t \in Threads |-> "entry"]
    /\ tmulti \in [Threads -> BOOLEAN]
    /\ timers = [w \in Stopwatches |-> [running |-> FALSE, laps |-> 0]]
    /\ writers = [w \in Stopwatches |-> {}]

\* screening and the shortcuts: only a call with n > 1 goes on (lines 132-179)
ConcScreen(t) ==
    /\ tpc[t] = "entry"
    /\ tpc' = [tpc EXCEPT ![t] = IF tmulti[t] THEN "retrieve" ELSE "done"]
    /\ UNCHANGED <<tmulti, timers, writers, mainVars, bfVars, taxVars>>

ConcTimerStart(t) ==
    /\ \E k \in DOMAIN TimedPhases : tpc[t] = TimedPhases[k]
    /\ LET w == stopwatchOf(tpc[t])
       IN  /\ timers' = [timers EXCEPT ![w] = stopwatchStart(@)]
           /\ writers' = [writers EXCEPT ![w] = @ \cup {t}]
    /\ tpc' = [tpc EXCEPT ![t] = <<"in", tpc[t]>>]
    /\ UNCHANGED <<tmulti, mainVars, bfVars, taxVars>>

ConcTimerStop(t) ==
    /\ tpc[t] \in {<<"in", TimedPhases[k]>> : k \in DOMAIN TimedPhases}
    /\ LET w == stopwatchOf(tpc[t][2])
       IN  /\ timers' = [timers EXCEPT ![w] = stopwatchStop(@)]
           /\ writers' = [writers EXCEPT ![w] = @ \cup {t}]
    /\ tpc' = [tpc EXCEPT ![t] = phaseAfter(tpc[t][2])]
    /\ UNCHANGED <<tmulti, mainVars, bfVars, taxVars>>

NextConc == \E t \in Threads : ConcScreen(t) \/ ConcTimerStart(t) \/ ConcTimerStop(t)

SpecConc == InitConc /\ [][NextConc]_vars

(***************************************************************************)
(* The taxonomy and its life cycle as the unit test drives it: nodes are   *)
(* inserted parent first, the tree is indexed, the basic tests run; a      *)
(* second load of the same taxonomy is pruned to the marked ranks and      *)
(* rank-normalized, and the depth tests run.  Taxonomy and                 *)
(* TaxonomyInterface are not part of the sources at hand; their operations *)
(* follow their contracts, the tests follow the test program.              *)
(***************************************************************************)
\* the ranks the depth tests name, in canonical order (index 1 .. 7)
RankList == <<"superkingdom", "phylum", "class", "order", "family", "genus", "species">>
\* ranks and names of the annotations in the model
TaxRanks == {"no rank", "phylum", "genus"}
TaxNames == {"taxon", "unclassified taxon"}

isMarkedRank(rank) == \E k \in DOMAIN RankList : RankList[k] = rank
\* variant of the canonical index that counts the ranks from zero
canonicalIndexFromZero(rank) == (CHOOSE k \in DOMAIN RankList : RankList[k] = rank) - 1

canonicalIndex(rank) == CHOOSE k \in DOMAIN RankList : RankList[k] = rank

\* annotation->name.find( "unclassified" ) != std::string::npos
containsUnclassified(name) == name = "unclassified taxon"

\* an absent annotation (dummy node) and the annotation of the root
NoAnnotation == [present |-> FALSE, name |-> "", rank |-> ""]
RootAnnotation == [present |-> TRUE, name |-> "root", rank |-> "no rank"]
Annotations ==
    {NoAnnotation} \cup [present : {TRUE}, name : TaxNames, rank : TaxRanks]

\* the children of a node, left to right (in the order of insertion)
childrenOf(par, node) == OrderedSeq({c \in DOMAIN par : c # node /\ par[c] = node})

\* the nodes on the path from a node up to the root, the node included
RECURSIVE pathToRoot(_, _)
pathToRoot(par, node) ==
    IF node = Root THEN {Root} ELSE {node} \cup pathToRoot(par, par[node])

\* number of edges from the root
treeDepth(par, node) == Cardinality(pathToRoot(par, node)) - 1

\* Taxonomy::insertNode with setAnnotation: the new node gets the next id
insertNode(par, ann, parent, annotation) ==
    LET id == Cardinality(DOMAIN par) + 1
    IN  [parent |-> MapPut(par, id, parent), annotation |-> MapPut(ann, id, annotation)]

\* Taxonomy::reindex: a depth-first, left-to-right traversal that assigns
\* leftvalue on descent and rightvalue on ascent from one increasing counter,
\* root_pathlength from the depth, and is_unclassified to every node below
\* the root that has, or lies under a node that has, "unclassified" in its name
RECURSIVE indexNode(_, _, _, _, _, _), indexChildren(_, _, _, _, _, _, _)
indexNode(par, ann, node, depth, uncl, acc) ==
    LET u == node # Root /\ (uncl \/ (ann[node].present
                                         /\ containsUnclassified(ann[node].name)))
        down == [acc EXCEPT !.counter = @ + 1,
                            !.left = MapPut(@, node, acc.counter),
                            !.depth = MapPut(@, node, depth),
                            !.uncl = MapPut(@, node, u)]
        back == indexChildren(par, ann, childrenOf(par, node), 1, depth + 1, u, down)
    IN  [back EXCEPT !.counter = @ + 1, !.right = MapPut(@, node, back.counter)]
indexChildren(par, ann, list, k, depth, uncl, acc) ==
    IF k > Len(list) THEN acc
    ELSE indexChildren(par, ann, list, k + 1, depth, uncl,
                       indexNode(par, ann, list[k], depth, uncl, acc))

reindex(par, ann) ==
    indexNode(par, ann, Root, 0, FALSE,
              [counter |-> 1, left |-> <<>>, right |-> <<>>, depth |-> <<>>,
               uncl |-> <<>>])

\* TaxonNode::mark: the rank of the node is in the list of marked ranks
isMarked(ann, node) == ann[node].present /\ isMarkedRank(ann[node].rank)

\* the nearest ancestor-or-self of a node that is kept
RECURSIVE survivingAncestor(_, _, _)
survivingAncestor(par, keep, node) ==
    IF node \in keep THEN node ELSE survivingAncestor(par, keep, par[node])

\* Taxonomy::deleteUnmarkedNodes: every unmarked node but the root is removed
\* and its children are re-parented to its surviving parent
deleteUnmarkedNodes(par, ann) ==
    LET keep == {Root} \cup {x \in DOMAIN par : isMarked(ann, x)}
    IN  [x \in keep |-> IF x = Root THEN par[Root]
                        ELSE survivingAncestor(par, keep, par[x])]

\* Taxonomy::setRankDistances: the canonical index of the rank, for a node
\* without canonical rank the root_pathlength of its parent plus one
RECURSIVE rankDistance(_, _, _)
rankDistance(par, ann, node) ==
    IF isMarked(ann, node) THEN canonicalIndex(ann[node].rank)
    ELSE IF node = Root THEN 0
    ELSE rankDistance(par, ann, par[node]) + 1

setRankDistances(par, ann) == [x \in DOMAIN par |-> rankDistance(par, ann, x)]

\* TaxonomyInterface on the taxonomy under construction
taxIsParentOf(A, B) ==
    t_leftvalue[A] <= t_leftvalue[B] /\ t_rightvalue[A] >= t_rightvalue[B]

\* variant of getLCA that answers the root for two nodes of different lineages
taxGetLCARoot(A, B) ==
    IF taxIsParentOf(A, B) THEN A
    ELSE IF taxIsParentOf(B, A) THEN B
    ELSE Root

RECURSIVE taxGetLCA(_, _)
taxGetLCA(A, B) ==
    IF taxIsParentOf(A, B) THEN A
    ELSE IF taxIsParentOf(B, A) THEN B
    ELSE IF t_root_pathlength[A] >= t_root_pathlength[B] THEN taxGetLCA(t_parent[A], B)
    ELSE taxGetLCA(A, t_parent[B])

\* getPathLength(A, B): edges from A up to the LCA and from there down to B
getPathLength(A, B) ==
    LET lca == taxGetLCA(A, B)
    IN  <<t_root_pathlength[A] - t_root_pathlength[lca],
          t_root_pathlength[B] - t_root_pathlength[lca]>>

\* the assertions of the unit test
\* TAXONOMY_SIZE: tax->size() == tax->indexSize()
testTaxonomySize == Cardinality(DOMAIN t_parent) = Cardinality(DOMAIN t_annotation)

\* ANNOTATION_POINTER: ! annotation || annotation->name != annotation->rank
testAnnotationPointer ==
    \A x \in DOMAIN t_parent :
        ~t_annotation[x].present \/ t_annotation[x].name # t_annotation[x].rank

\* variant of NESTED_SET with the comparisons turned round
testNestedSetInverted(node) ==
    LET list == childrenOf(t_parent, node)
    IN  \A k \in 1 .. (Len(list) - 1) :
            /\ t_leftvalue[node] >= t_leftvalue[list[k]]
            /\ t_rightvalue[node] <= t_rightvalue[list[k]]

\* NESTED_SET for the node picked: the loop runs over its children from
\* first_child up to, and without, last_child
testNestedSet(node) ==
    LET list == childrenOf(t_parent, node)
    IN  \A k \in 1 .. (Len(list) - 1) :
            /\ t_leftvalue[node] <= t_leftvalue[list[k]]
            /\ t_rightvalue[node] >= t_rightvalue[list[k]]

\* PATHLENGTH_ROOT_TO_ROOT
testRootPathLength ==
    getPathLength(Root, Root) = <<0, 0>> /\ t_root_pathlength[Root] = 0

\* PATHLENGTH_RANDOM_TO_ROOT_FIXED_DEPTH for the node picked: the nodes the
\* fixed_depth_iterator visits are those of the same depth from it onwards
testFixedDepth(node) ==
    \A x \in DOMAIN t_parent :
        (treeDepth(t_parent, x) = treeDepth(t_parent, node)
            /\ t_leftvalue[x] >= t_leftvalue[node])
                => t_root_pathlength[x] = t_root_pathlength[node]

\* variant of PATHLENGTH_TO_PARENT_EQUALS_ONE that expects the depth of the parent
testParentDepthSame ==
    \A x \in DOMAIN t_parent \ {Root} :
        t_root_pathlength[t_parent[x]] = t_root_pathlength[x]

\* PATHLENGTH_TO_PARENT_EQUALS_ONE
testParentDepth ==
    \A x \in DOMAIN t_parent \ {Root} :
        t_root_pathlength[t_parent[x]] + 1 = t_root_pathlength[x]

\* variant of UNCLASSIFIED_MARKED whose walk starts at the parent of the node
testUnclassifiedMarkedAbove ==
    \A x \in DOMAIN t_parent \ {Root} :
        t_is_unclassified[x] =>
            \E y \in pathToRoot(t_parent, x) \ {Root, x} :
                t_annotation[y].present /\ containsUnclassified(t_annotation[y].name)

\* UNCLASSIFIED_MARKED: from a node marked unclassified the walk towards the
\* root meets a name with "unclassified" before it meets the root
testUnclassifiedMarked ==
    \A x \in DOMAIN t_parent \ {Root} :
        t_is_unclassified[x] =>
            \E y \in pathToRoot(t_parent, x) \ {Root} :
                t_annotation[y].present /\ containsUnclassified(t_annotation[y].name)

\* the message of UNCLASSIFIED_MARKED reads annotation->name of the node
\* without testing the pointer
testReadsNullAnnotation ==
    \E x \in DOMAIN t_parent \ {Root} : t_is_unclassified[x] /\ ~t_annotation[x].present

\* NORMALIZED_DEPTH: rank == RankList[k] implies root_pathlength == k
testNormalizedDepth ==
    \A x \in DOMAIN t_parent \ {Root} :
        t_annotation[x].present =>
            \A k \in DOMAIN RankList :
                t_annotation[x].rank = RankList[k] => t_root_pathlength[x] = k

InitTax ==
    /\ MainIdle /\ BFIdle /\ ConcIdle
    /\ t_parent = [x \in {Root} |-> NULL]
    /\ t_annotation = [x \in {Root} |-> RootAnnotation]
    /\ t_leftvalue = [x \in {Root} |-> 0]
    /\ t_rightvalue = [x \in {Root} |-> 0]
    /\ t_root_pathlength = [x \in {Root} |-> 0]
    /\ t_is_unclassified = [x \in {Root} |-> FALSE]
    /\ t_stage = "build"
    /\ alltests = TRUE

\* the loader inserts a node under a node that is already there
TaxInsertNode ==
    /\ t_stage = "build"
    /\ Cardinality(DOMAIN t_parent) < MaxTaxNodes
    /\ \E parent \in DOMAIN t_parent, annotation \in Annotations :
          \E new \in {insertNode(t_parent, t_annotation, parent, annotation)} :
          \E id \in (DOMAIN new.parent) \ (DOMAIN t_parent) :
              /\ t_parent' = new.parent
              /\ t_annotation' = new.annotation
              /\ t_leftvalue' = MapPut(t_leftvalue, id, 0)
              /\ t_rightvalue' = MapPut(t_rightvalue, id, 0)
              /\ t_root_pathlength' = MapPut(t_root_pathlength, id, 0)
              /\ t_is_unclassified' = MapPut(t_is_unclassified, id, FALSE)
    /\ UNCHANGED <<t_stage, alltests, mainVars, bfVars, concVars>>

TaxReindex ==
    /\ t_stage = "build"
    /\ \E idx \in {reindex(t_parent, t_annotation)} :
          /\ t_leftvalue' = idx.left
          /\ t_rightvalue' = idx.right
          /\ t_root_pathlength' = idx.depth
          /\ t_is_unclassified' = idx.uncl
    /\ t_stage' = "indexed"
    /\ UNCHANGED <<t_parent, t_annotation, alltests, mainVars, bfVars, concVars>>

\* the basic tests on the unmodified taxonomy, with the nodes rand() picks
TaxTestBasic ==
    /\ t_stage = "indexed"
    /\ \E picked, fixed \in DOMAIN t_parent :
          alltests' = (/\ alltests
                       /\ testTaxonomySize
                       /\ testAnnotationPointer
                       /\ testNestedSet(picked)
                       /\ testRootPathLength
                       /\ testFixedDepth(fixed)
                       /\ testParentDepth
                       /\ testUnclassifiedMarked)
    /\ t_stage' \in (IF testReadsNullAnnotation THEN {"tested", "crashed"}
                     ELSE {"tested"})
    /\ UNCHANGED <<t_parent, t_annotation, t_leftvalue, t_rightvalue,
                   t_root_pathlength, t_is_unclassified, mainVars, bfVars, concVars>>

TaxDeleteUnmarkedNodes ==
    /\ t_stage = "indexed"
    /\ \E par \in {deleteUnmarkedNodes(t_parent, t_annotation)} :
          /\ t_parent' = par
          /\ t_annotation' = [x \in DOMAIN par |-> t_annotation[x]]
          /\ t_leftvalue' = [x \in DOMAIN par |-> t_leftvalue[x]]
          /\ t_rightvalue' = [x \in DOMAIN par |-> t_rightvalue[x]]
          /\ t_root_pathlength' = [x \in DOMAIN par |-> t_root_pathlength[x]]
          /\ t_is_unclassified' = [x \in DOMAIN par |-> t_is_unclassified[x]]
    /\ t_stage' = "pruned"
    /\ UNCHANGED <<alltests, mainVars, bfVars, concVars>>

TaxSetRankDistances ==
    /\ t_stage = "pruned"
    /\ t_root_pathlength' = setRankDistances(t_parent, t_annotation)
    /\ t_stage' = "normalized"
    /\ UNCHANGED <<t_parent, t_annotation, t_leftvalue, t_rightvalue,
                   t_is_unclassified, alltests, mainVars, bfVars, concVars>>

\* the depth tests on the normalized taxonomy
TaxTestNormalized ==
    /\ t_stage = "normalized"
    /\ alltests' = (alltests /\ testNormalizedDepth)
    /\ t_stage' = "normtested"
    /\ UNCHANGED <<t_parent, t_annotation, t_leftvalue, t_rightvalue,
                   t_root_pathlength, t_is_unclassified, mainVars, bfVars, concVars>>

NextTax ==
    \/ TaxInsertNode
    \/ TaxReindex
    \/ TaxTestBasic
    \/ TaxDeleteUnmarkedNodes
    \/ TaxSetRankDistances
    \/ TaxTestNormalized

SpecTax == InitTax /\ [][NextTax]_vars

(***************************************************************************)
(* The walk over outgroup_tmp and the push to the upper node (lines        *)
(* 410-477) on their own: every list of entries an anchor iteration can    *)
(* leave in outgroup_tmp, then the walk and the push loop                  *)
(***************************************************************************)
\* band factors of the anchor iteration: 1, 1.5, 2 and 3
WalkFactors == {<<1, 1, 0>>, <<3, 2, 0>>, <<2, 1, 0>>, <<3, 1, 0>>}

InitWalk ==
    /\ \E cnt \in 0 .. MaxWalkLen :
          \E nodes \in [1 .. cnt -> RefNodes], scores \in [1 .. cnt -> 1 .. MaxWalkScore],
             qscore \in 0 .. (MaxWalkScore - 1), bandfactor \in WalkFactors,
             rt \in RefNodes :
          \E lnode \in {x \in Nodes : isParentOf(x, rt)} :
              \* outgroup_tmp holds records that score more than qscore
              /\ \A k \in 1 .. cnt : scores[k] > qscore
              /\ records = [i \in 1 .. cnt |->
                               [score |-> 0, filtered |-> FALSE, node |-> nodes[i],
                                qstart |-> 1, qstop |-> QueryLen, identities |-> 0,
                                alen |-> QueryLen]]
              /\ rtax = rt
              \* the inner loop runs from the last record to the first
              /\ anchor1 = [Anchor1Init EXCEPT
                               !.qscore = qscore, !.lnode = lnode,
                               !.bandfactor = bandfactor,
                               !.qscore_ex = TruncMul(qscore, bandfactor),
                               !.outgroup_tmp = [k \in 1 .. cnt |->
                                                    <<cnt + 1 - k, scores[cnt + 1 - k]>>]]
    /\ records_entry = records /\ db_sequences_ = <<>>
    /\ exclude_alignments_factor_ = <<1, 1>> /\ reeval_bandwidth_factor_ = <<1, 1>>
    /\ query_sequences_ = QuerySeq
    /\ pc = "walk" /\ prec = PrecInit /\ call = 1 /\ prec_first = PrecInit
    /\ n = Len(records) /\ n_pre = 0 /\ qmaxscore = 0 /\ qrstart = 0 /\ qrstop = 0
    /\ records_ordered = <<>> /\ rrseqs_ordered = <<>>
    /\ rrseqs_qscores = <<>> /\ rrseqs_matches = <<>>
    /\ qgroup = {} /\ anchors_support = 0 /\ lca_allnodes = NULL
    /\ index_best = 0 /\ ival_global = <<0, 1>> /\ lnode_global = NULL
    /\ unode_global = NULL /\ outgroup = {} /\ bandfactor_max = <<1, 1, 0>>
    /\ lca_root_dist_min = SmallUIntMax /\ index_anchor = 0 /\ loop_i = 0
    /\ qscore_ex2 = 0 /\ pass_0_counter = 0 /\ pass_1_counter = 0
    /\ pass_2_counter = 0 /\ fetches = 0
    /\ num_qnodes = 0 /\ num_outgroup = 0 /\ pass_1_anchors = 0 /\ pass_2_anchors = 0
    /\ BFIdle /\ ConcIdle /\ TaxIdle

\* lines 413-477: the walk, unode = lnode, the push loop
PredictUpperWalk ==
    /\ pc = "walk"
    /\ \E walk \in {upperWalk(anchor1.outgroup_tmp, 1, anchor1.qscore_ex,
                        [mus |-> IntMax, kept |-> <<>>])} :
       \E unode0 \in {IF walk.mus # IntMax THEN anchor1.lnode ELSE NULL} :
       \E push \in {pushLoop(walk.kept, 1, walk.mus, records, rtax,
                        [unode |-> unode0, outgroup |-> outgroup,
                         dmin |-> lca_root_dist_min])} :
           /\ anchor1' = [anchor1 EXCEPT !.kept = walk.kept,
                                         !.min_upper_score = walk.mus,
                                         !.unode = push.unode]
           /\ outgroup' = push.outgroup
           /\ lca_root_dist_min' = push.dmin
    /\ pc' = "walked"
    /\ UNCHANGED <<records, records_entry, exclude_alignments_factor_,
                   reeval_bandwidth_factor_, query_sequences_, db_sequences_, prec,
                   n, n_pre, qmaxscore, qrstart, qrstop, records_ordered,
                   rrseqs_ordered, rrseqs_qscores, rrseqs_matches, qgroup,
                   anchors_support, rtax, lca_allnodes, index_best, ival_global,
                   lnode_global, unode_global, bandfactor_max, index_anchor, loop_i,
                   qscore_ex2, pass_0_counter, pass_1_counter, pass_2_counter,
                   fetches, call, prec_first, loopVars, bfVars, concVars, taxVars>>

NextWalk == PredictUpperWalk

SpecWalk == InitWalk /\ [][NextWalk]_vars

(***************************************************************************)
(* Properties                                                              *)
(***************************************************************************)
InUnitInterval(r) == RatLE(<<0, 1>>, r) /\ RatLE(r, <<1, 1>>)

\* the unfiltered record of a recordset that has exactly one
theOnly(rs) == rs[CHOOSE i \in DOMAIN rs : ~rs[i].filtered]

NoFetchNoAlignment ==
    fetches = 0 /\ pass_0_counter = 0 /\ pass_1_counter = 0 /\ pass_2_counter = 0

\* C1: after pass 0, after every pass-1 anchor merge and after every pass-2
\* step unode_global is an ancestor of or equal to lnode_global, and every
\* prediction emitted for a recordset with an unfiltered record has
\* isParentOf(upperNode, lowerNode).
C1_UpperIsAncestorOfLower ==
    /\ pc \in {"pass1", "pass2", "pass2loop"} => isParentOf(unode_global, lnode_global)
    /\ (pc = "done" /\ ~prec.unclassified) => isParentOf(prec.upper, prec.lower)

\* C1 witness: a prediction of the full algorithm whose upper node was raised
\* by an outgroup record in pass 1 and lies strictly between lower node and root
C1_Witness ==
    /\ pc = "done" /\ n >= 2 /\ anchor1.kept # <<>>
    /\ prec.upper # prec.lower /\ prec.upper # getRoot

\* C2: every per-anchor interpolation value of pass 1, the combined value
\* ival_global and the interpolationValue of every emitted prediction lie
\* in [0,1].
C2_IvalInUnitInterval ==
    /\ InUnitInterval(anchor1.ival)
    /\ InUnitInterval(ival_global)
    /\ InUnitInterval(prec.ival)

\* C2 witness: an anchor whose value is the proper fraction
\* (qscore - lscore)/(uscore - lscore), emitted as interpolationValue
C2_Witness ==
    /\ pc = "done"
    /\ anchor1.lscore < anchor1.qscore /\ anchor1.qscore < anchor1.uscore
    /\ anchor1.unode # anchor1.lnode
    /\ anchor1.ival = Rat(anchor1.qscore - anchor1.lscore,
                          anchor1.uscore - anchor1.lscore)
    /\ prec.ival = anchor1.ival /\ prec.ival \notin {<<0, 1>>, <<1, 1>>}

\* C3: when exactly one record is unfiltered after screening, the prediction
\* is lowerNode = bestReferenceTaxon = that record's node, upperNode = root,
\* interpolationValue = 1, anchorsSupport = its identities, query range = its
\* query range, and no sequence was fetched and no alignment computed.
C3_SingleRecordShortcut ==
    (pc = "done" /\ Cardinality(Unfiltered(records)) = 1) =>
        LET rec == theOnly(records)
        IN  /\ prec.lower = rec.node /\ prec.best = rec.node
            /\ prec.upper = getRoot /\ prec.ival = <<1, 1>>
            /\ prec.support = rec.identities
            /\ prec.qbegin = rec.qstart /\ prec.qend = rec.qstop
            /\ ~prec.unclassified
            /\ NoFetchNoAlignment

\* C3 witness: the single record is left over because screening filtered
\* the others by exclude_factor
C3_Witness ==
    /\ pc = "done" /\ Cardinality(Unfiltered(records)) = 1
    /\ Cardinality(Unfiltered(records_entry)) >= 2
    /\ prec.lower = theOnly(records).node

\* C4: when no record is unfiltered after screening, the prediction is set
\* to unclassified without a fetch, an alignment or any other field set; and
\* no record is unfiltered after screening only if none was on entry.
C4_EmptyCaseUnclassified ==
    /\ (pc # "entry" /\ Unfiltered(records) = {}) => Unfiltered(records_entry) = {}
    /\ (pc = "done" /\ Unfiltered(records) = {}) =>
            /\ prec.unclassified /\ [prec EXCEPT !.unclassified = FALSE] = PrecInit
            /\ NoFetchNoAlignment

\* C4 witness: a recordset with records, all filtered on entry, is unclassified
C4_Witness ==
    /\ pc = "done" /\ prec.unclassified
    /\ Len(records) >= 2 /\ Unfiltered(records_entry) = {}

\* C5: a second run of predict on the recordset as the first run left it
\* emits the same prediction as the first run.
C5_SecondRunSamePrediction ==
    (call = 2 /\ pc = "done") => prec = prec_first

\* C5 witness: the second run has gone through all passes on a recordset in
\* which the first run had filtered a record (a record filtered before the
\* first run has node 3 in the initial states)
C5_Witness ==
    /\ call = 2 /\ pc = "done" /\ n >= 2 /\ pass_1_counter > 0
    /\ \E i \in DOMAIN records : records[i].filtered /\ records[i].node # 3

\* C6: screening is monotone: the records left unfiltered with a factor f
\* include those left with the model's factor when f is at most that
\* factor, and are among them when f is at least that factor.
C6_ScreeningMonotone ==
    pc # "entry" =>
        \A f \in ExcludeFactors :
            LET other == Unfiltered(screenRecords(records_entry, f))
            IN  /\ RatLE(f, exclude_alignments_factor_) => Unfiltered(records) \subseteq other
                /\ RatLE(exclude_alignments_factor_, f) => other \subseteq Unfiltered(records)

\* C6 witness: the smaller factor keeps a record that the larger one filters
C6_Witness ==
    /\ pc = "done" /\ exclude_alignments_factor_ = Rat(1, FactorDen)
    /\ Unfiltered(screenRecords(records_entry, <<1, 1>>)) # Unfiltered(records)

\* C7: predict changes nothing of the caller's records but the filtered
\* flag, never clears that flag, and sets it only on records with
\* score < qmaxscore * exclude_factor.
C7_OnlyFilteredFlagSet ==
    /\ Len(records) = Len(records_entry)
    /\ \A i \in DOMAIN records :
          LET was == records_entry[i]
              S == {records_entry[j].score :
                       j \in {k \in DOMAIN records_entry : ~records_entry[k].filtered}}
              top == IF S = {} THEN 0 ELSE SetMax(S \cup {0})
          IN  /\ [records[i] EXCEPT !.filtered = was.filtered] = was
              /\ was.filtered => records[i].filtered
              /\ (records[i].filtered /\ ~was.filtered) =>
                     was.score * exclude_alignments_factor_[2]
                         < top * exclude_alignments_factor_[1]

\* C7 witness: a finished full run that filtered a record of the caller
C7_Witness ==
    /\ pc = "done" /\ n >= 2
    /\ \E i \in DOMAIN records : records[i].filtered /\ ~records_entry[i].filtered

\* C9: the assertion after pass 0 never fails; right after pass 0 qgroup is
\* non-empty, holds index_best, and all its members have the score and the
\* matches of index_best.
C9_QgroupAfterPass0 ==
    /\ pc # "assert_failed"
    /\ (pc = "pass1" /\ anchor1.index_anchor = 0) =>
            /\ qgroup # {}
            /\ index_best \in qgroup
            /\ \A i \in qgroup : /\ rrseqs_qscores[i] = rrseqs_qscores[index_best]
                                 /\ rrseqs_matches[i] = rrseqs_matches[index_best]

\* C9 witness: pass 0 kept several records and dropped another one
C9_Witness ==
    /\ pc = "pass1" /\ anchor1.index_anchor = 0
    /\ Cardinality(qgroup) >= 2 /\ Cardinality(qgroup) < n

\* C8: two concurrent predict calls on one model write no shared mutable
\* state: no member of the model is written by both calls.
C8_NoSharedWrites ==
    \A w \in Stopwatches : Cardinality(writers[w]) <= 1

\* C10: getFactor returns a value >= 1 and <= INT_MAX, and every ratio it
\* takes the maximum over is >= 1.
C10_FactorWithinBounds ==
    bandfactor_[1] >= 0 =>
        /\ FltLE(<<1, 1, 0>>, bandfactor_)
        /\ FltLE(bandfactor_, <<IntMax, 1, 0>>)
        /\ \A x \in ratios_ : FltLE(<<1, 1, 0>>, x)

(***************************************************************************)
(* Scenario of two records: one pass-1 anchor and one other record         *)
(***************************************************************************)
\* a finished full run on two records in which the best reference was the
\* only member of qgroup after pass 0, hence rtax its taxon and the only
\* anchor of pass 1 (a tied second member would be left in qgroup, be the
\* last anchor, or be at distance 0 from the anchor)
TwoRecordsOneAnchor ==
    /\ pc = "done" /\ n = 2 /\ index_best # 0
    /\ anchor1.index_anchor = index_best /\ qgroup = {}

\* index of the record that is not the anchor, and its distance to the anchor
otherIndex == 3 - anchor1.index_anchor
distToAnchor == EditTable[rrseqs_ordered[otherIndex], rrseqs_ordered[anchor1.index_anchor]]
taxonY == records[records_ordered[anchor1.index_anchor]].node
taxonZ == records[records_ordered[otherIndex]].node

\* C11 as stated: with two unfiltered records, the best reference (taxon Y)
\* the only anchor and the other record (taxon Z) at an edit distance greater
\* than qscore from it, lowerNode = Y, upperNode = LCA(Y,Z) and
\* 0 < interpolationValue < 1.
C11_OutgroupIvalProper ==
    (TwoRecordsOneAnchor /\ distToAnchor > anchor1.qscore) =>
        /\ prec.lower = taxonY
        /\ prec.upper = getLCA(taxonY, taxonZ)
        /\ RatLT(<<0, 1>>, prec.ival) /\ RatLT(prec.ival, <<1, 1>>)

\* C11 amended: in that scenario lowerNode = Y and upperNode = LCA(Y,Z); the
\* interpolationValue is 1 when LCA(Y,Z) = Y and qscore/distance otherwise,
\* which lies strictly between 0 and 1 exactly when qscore > 0.
C11_OutgroupScenario ==
    (TwoRecordsOneAnchor /\ distToAnchor > anchor1.qscore) =>
        /\ prec.lower = taxonY
        /\ prec.upper = getLCA(taxonY, taxonZ)
        /\ prec.ival = IF getLCA(taxonY, taxonZ) = taxonY THEN <<1, 1>>
                       ELSE Rat(anchor1.qscore, distToAnchor)
        /\ (getLCA(taxonY, taxonZ) # taxonY /\ anchor1.qscore > 0) =>
               (RatLT(<<0, 1>>, prec.ival) /\ RatLT(prec.ival, <<1, 1>>))
        /\ (getLCA(taxonY, taxonZ) # taxonY /\ anchor1.qscore = 0) =>
               prec.ival = <<0, 1>>

\* C11 witness: the anchor is not an exact match, the other record lies in
\* another subtree, and the emitted value is a proper fraction
C11_Witness ==
    /\ TwoRecordsOneAnchor /\ distToAnchor > anchor1.qscore
    /\ anchor1.qscore > 0 /\ getLCA(taxonY, taxonZ) # taxonY
    /\ prec.lower = taxonY /\ prec.upper = getLCA(taxonY, taxonZ)
    /\ prec.ival = Rat(anchor1.qscore, distToAnchor)

\* a finished run on exactly two unfiltered records, both exact matches to
\* the query (alignmentLength = identities = qrlength), of one taxon
TwoExactSameTaxon ==
    /\ pc = "done" /\ n = 2
    /\ \A i \in Unfiltered(records) :
          /\ records[i].alen = qrstop - qrstart + 1
          /\ records[i].identities = qrstop - qrstart + 1
    /\ \A i, j \in Unfiltered(records) : records[i].node = records[j].node

\* C12 as stated: two exact matches of the same taxon Y give
\* bestReferenceTaxon = lowerNode = upperNode = Y and interpolationValue = 1.
C12_TwoIdenticalUpperIsY ==
    TwoExactSameTaxon =>
        /\ prec.best = taxonY /\ prec.lower = taxonY
        /\ prec.upper = taxonY /\ prec.ival = <<1, 1>>

\* C12 amended: two exact matches of the same taxon Y give
\* bestReferenceTaxon = lowerNode = Y, interpolationValue = 1 and, there being
\* no outgroup record, upperNode = root; no alignment is computed.
C12_TwoIdenticalUpperIsRoot ==
    TwoExactSameTaxon =>
        /\ prec.best = taxonY /\ prec.lower = taxonY
        /\ prec.upper = getRoot /\ prec.ival = <<1, 1>>
        /\ pass_0_counter = 0 /\ pass_1_counter = 0 /\ pass_2_counter = 0

\* C12 witness: such a run, in which the triangle shortcut removed the second
\* record from qgroup and the anchor had no outgroup record
C12_Witness ==
    /\ TwoExactSameTaxon /\ qgroup = {} /\ anchor1.index_anchor = 1
    /\ anchor1.outgroup_tmp = <<>> /\ rrseqs_qscores = <<0, 0>>
    /\ prec.lower = taxonY /\ prec.upper = getRoot /\ taxonY # getRoot

(***************************************************************************)
(* Invariants of the taxonomy                                              *)
(***************************************************************************)
\* the taxonomy has been indexed
taxIndexed == t_stage \notin {"none", "build"}
\* the taxonomy has been pruned to the marked ranks
taxPruned == t_stage \in {"pruned", "normalized", "normtested"}
isAncestorOrSelf(A, B) == A \in pathToRoot(t_parent, B)

\* C13: after reindex(), and still after deleteUnmarkedNodes(), every node N
\* with parent P has P.leftvalue <= N.leftvalue < N.rightvalue <= P.rightvalue,
\* the intervals of distinct siblings are disjoint, isParentOf(A,B) holds
\* exactly when A is an ancestor of or equal to B, and the NESTED_SET
\* assertion of the unit test holds for every node it can pick.
C13_NestedSetContainment ==
    taxIndexed =>
        /\ \A x \in DOMAIN t_parent \ {Root} :
              /\ t_leftvalue[t_parent[x]] <= t_leftvalue[x]
              /\ t_leftvalue[x] < t_rightvalue[x]
              /\ t_rightvalue[x] <= t_rightvalue[t_parent[x]]
        /\ t_leftvalue[Root] < t_rightvalue[Root]
        /\ \A x, y \in DOMAIN t_parent \ {Root} :
              (x # y /\ t_parent[x] = t_parent[y]) =>
                  \/ t_rightvalue[x] < t_leftvalue[y]
                  \/ t_rightvalue[y] < t_leftvalue[x]
        /\ \A x, y \in DOMAIN t_parent :
              taxIsParentOf(x, y) <=> isAncestorOrSelf(x, y)
        /\ \A x \in DOMAIN t_parent : testNestedSet(x)

\* C13 witness: a pruned taxonomy in which a node was re-parented (its depth
\* of before the deletion exceeds its depth now) next to a sibling, with a
\* node that is neither above nor below it
C13_Witness ==
    /\ t_stage = "pruned"
    /\ \E x, y \in DOMAIN t_parent \ {Root} :
          /\ x # y /\ t_parent[x] = t_parent[y]
          /\ t_root_pathlength[x] > treeDepth(t_parent, x)
          /\ ~taxIsParentOf(x, y) /\ ~taxIsParentOf(y, x)
          /\ taxIsParentOf(t_parent[x], y)

\* the taxonomy is indexed and rank normalization has not begun
taxUnmodified == t_stage \in {"indexed", "tested", "crashed"}

\* C14: after indexing and before rank normalization the root has
\* root_pathlength 0, every other node has the root_pathlength of its parent
\* plus one, getPathLength(root, root) is (0, 0), and the assertions
\* PATHLENGTH_ROOT_TO_ROOT and PATHLENGTH_TO_PARENT_EQUALS_ONE hold.
C14_DepthIsParentPlusOne ==
    taxUnmodified =>
        /\ t_root_pathlength[Root] = 0
        /\ \A x \in DOMAIN t_parent \ {Root} :
              t_root_pathlength[x] = t_root_pathlength[t_parent[x]] + 1
        /\ \A x \in DOMAIN t_parent :
              t_root_pathlength[x] = treeDepth(t_parent, x)
        /\ getPathLength(Root, Root) = <<0, 0>>
        /\ testRootPathLength
        /\ testParentDepth

\* C14 witness: the tests ran and passed on a taxonomy with a node three
\* edges below the root and a node directly below it
C14_Witness ==
    /\ t_stage = "tested" /\ alltests
    /\ \E x, y \in DOMAIN t_parent :
          t_root_pathlength[x] = 3 /\ t_root_pathlength[y] = 1 /\ t_parent[x] # y

\* the annotation of the node has "unclassified" in its name
namedUnclassified(x) ==
    t_annotation[x].present /\ containsUnclassified(t_annotation[x].name)

taxNormalized == t_stage \in {"normalized", "normtested"}

\* C16: after deleteUnmarkedNodes() and setRankDistances(ranks) the root is
\* retained, every other retained node has a marked rank, and every retained
\* node with a marked rank has root_pathlength equal to the canonical index of
\* its rank (phylum 2, genus 6), whatever its path was; NORMALIZED_DEPTH holds.
C16_NormalizedDepthIsCanonical ==
    taxNormalized =>
        /\ Root \in DOMAIN t_parent
        /\ \A x \in DOMAIN t_parent \ {Root} :
              /\ isMarked(t_annotation, x)
              /\ t_root_pathlength[x] = canonicalIndex(t_annotation[x].rank)
              /\ t_annotation[x].rank = "phylum" => t_root_pathlength[x] = 2
              /\ t_annotation[x].rank = "genus" => t_root_pathlength[x] = 6
        /\ testNormalizedDepth

\* C16 witness: the tests ran on a normalized taxonomy from which a node was
\* deleted (the interval of the root is wider than the nodes left need), with
\* a genus directly below the root and a phylum
C16_Witness ==
    /\ t_stage = "normtested" /\ alltests
    /\ t_rightvalue[Root] > 2 * Cardinality(DOMAIN t_parent)
    /\ \E x, y \in DOMAIN t_parent \ {Root} :
          /\ t_annotation[x].rank = "genus" /\ t_parent[x] = Root
          /\ t_root_pathlength[x] = 6
          /\ t_leftvalue[x] > t_leftvalue[Root] + 1
          /\ t_annotation[y].rank = "phylum" /\ t_root_pathlength[y] = 2

\* C17: on an indexed taxonomy, before and after rank normalization, getLCA(A,B)
\* is a common ancestor-or-self of A and B that lies below every other one;
\* getLCA(A,B) = getLCA(B,A), getLCA(A,A) = A, getLCA(A,B) = A whenever
\* isParentOf(A,B), and folding it over three or four nodes gives the same
\* node in every order.
C17_LCAIsDeepestCommonAncestor ==
    taxIndexed =>
        \A A, B \in DOMAIN t_parent :
            /\ taxIsParentOf(taxGetLCA(A, B), A)
            /\ taxIsParentOf(taxGetLCA(A, B), B)
            /\ \A M \in DOMAIN t_parent :
                  (taxIsParentOf(M, A) /\ taxIsParentOf(M, B)) =>
                      /\ taxIsParentOf(M, taxGetLCA(A, B))
                      /\ treeDepth(t_parent, M) <= treeDepth(t_parent, taxGetLCA(A, B))
            /\ taxGetLCA(A, B) = taxGetLCA(B, A)
            /\ taxGetLCA(A, A) = A
            /\ taxIsParentOf(A, B) => taxGetLCA(A, B) = A
            /\ \A C \in DOMAIN t_parent :
                  /\ taxGetLCA(taxGetLCA(A, B), C) = taxGetLCA(taxGetLCA(A, C), B)
                  /\ taxGetLCA(taxGetLCA(A, B), C) = taxGetLCA(taxGetLCA(B, C), A)
                  /\ \A D \in DOMAIN t_parent :
                        taxGetLCA(taxGetLCA(taxGetLCA(A, B), C), D)
                            = taxGetLCA(taxGetLCA(taxGetLCA(D, C), B), A)

\* C17 witness: a normalized taxonomy in which a node has a smaller
\* root_pathlength than its parent, with two nodes of different lineages
\* whose LCA is that parent and not the root
C17_Witness ==
    /\ t_stage = "normalized"
    /\ \E A, B \in DOMAIN t_parent \ {Root} :
          /\ ~taxIsParentOf(A, B) /\ ~taxIsParentOf(B, A)
          /\ taxGetLCA(A, B) # Root
          /\ taxGetLCA(A, B) = t_parent[A]
          /\ t_root_pathlength[A] < t_root_pathlength[t_parent[A]]

(***************************************************************************)
(* The query scores and the upper walk of an anchor                        *)
(***************************************************************************)
\* edit distance between the reference segment of record i and the query segment
queryDistance(i) ==
    EditTable[rrseqs_ordered[i], getQuerySequence(query_sequences_, qrstart, qrstop)]

\* C18: whenever pass 2 reads qscore = rrseqs_qscores[index_anchor] for the
\* anchor it popped, the value is the edit distance between the anchor's
\* reference segment and the query segment, and every entry of rrseqs_qscores
\* other than the dummy value is such a distance throughout passes 0, 1 and 2.
C18_QscoresAreQueryDistances ==
    /\ pc = "pass2loop" => rrseqs_qscores[index_anchor] = queryDistance(index_anchor)
    /\ \A i \in DOMAIN rrseqs_qscores :
          rrseqs_qscores[i] # IntMax => rrseqs_qscores[i] = queryDistance(i)

\* the scores of the entries of outgroup_tmp, and those within the band
walkScores == {anchor1.outgroup_tmp[k][2] : k \in DOMAIN anchor1.outgroup_tmp}
walkScoresInBand == {s \in walkScores : s <= anchor1.qscore_ex}
\* the value the walk is to leave in min_upper_score
expectedMinUpper ==
    IF walkScoresInBand # {}
    THEN CHOOSE s \in walkScoresInBand : \A t \in walkScoresInBand : t <= s
    ELSE IF walkScores # {} THEN SetMin(walkScores)
    ELSE IntMax
\* the entries of a walked list that the push loop folds into unode
foldedEntries(kept, mus) == {kept[k] : k \in {j \in DOMAIN kept : kept[j][2] <= mus}}
\* the orders in which a list of m entries can appear
walkOrders(m) == {p \in [1 .. m -> 1 .. m] : \A a, b \in 1 .. m : a # b => p[a] # p[b]}

\* C19: after the walk min_upper_score is the largest score <= qscore_ex if
\* there is one and the smallest score of all entries otherwise; the entries
\* folded into unode are exactly those with score <= min_upper_score; and
\* min_upper_score, that set and the node folded from it are the same for
\* every order of the entries in outgroup_tmp.
C19_MinUpperScoreOrderFree ==
    pc = "walked" =>
        /\ anchor1.min_upper_score = expectedMinUpper
        /\ foldedEntries(anchor1.kept, anchor1.min_upper_score)
              = {anchor1.outgroup_tmp[k] :
                    k \in {j \in DOMAIN anchor1.outgroup_tmp :
                              anchor1.outgroup_tmp[j][2] <= anchor1.min_upper_score}}
        /\ \A p \in walkOrders(Len(anchor1.outgroup_tmp)) :
              LET list == [k \in 1 .. Len(anchor1.outgroup_tmp) |->
                              anchor1.outgroup_tmp[p[k]]]
                  walk == upperWalk(list, 1, anchor1.qscore_ex,
                                    [mus |-> IntMax, kept |-> <<>>])
                  push == pushLoop(walk.kept, 1, walk.mus, records, rtax,
                              [unode |-> IF walk.mus # IntMax THEN anchor1.lnode
                                         ELSE NULL,
                               outgroup |-> {}, dmin |-> SmallUIntMax])
              IN  /\ walk.mus = anchor1.min_upper_score
                  /\ foldedEntries(walk.kept, walk.mus)
                        = foldedEntries(anchor1.kept, anchor1.min_upper_score)
                  /\ push.unode = anchor1.unode

\* C19 witness: three entries of which the first lies above the band and
\* stays in the list, a later one lies within the band and takes over
\* min_upper_score, and one is dropped; the first is not folded into unode
C19_Witness ==
    /\ pc = "walked" /\ Len(anchor1.outgroup_tmp) = 3
    /\ anchor1.outgroup_tmp[1][2] > anchor1.qscore_ex
    /\ anchor1.min_upper_score <= anchor1.qscore_ex
    /\ Len(anchor1.kept) = 2 /\ anchor1.kept[1] = anchor1.outgroup_tmp[1]
    /\ anchor1.kept[1] \notin foldedEntries(anchor1.kept, anchor1.min_upper_score)
    /\ anchor1.unode # anchor1.lnode

\* a pass-1 anchor iteration has been completed in this call
afterAnchor ==
    pc \in {"pass1", "pass2", "pass2loop", "done"} /\ anchor1.index_anchor # 0
\* the combined upper node is the root and the combined interpolation value 1
upperIsRootAndFull == unode_global = getRoot /\ ival_global = <<1, 1>>

\* C20: after an anchor iteration of pass 1, outgroup_tmp is empty exactly
\* when min_upper_score was never set, which is exactly when unode was NULL at
\* line 481 (uscore = -1); the anchor's upper node is then the root and its
\* ival 1, and so are the combined values; once the combined values are root
\* and 1 they stay so, and the prediction is emitted with upperNode = root and
\* interpolationValue = 1.
C20_NoOutgroupGivesRoot ==
    /\ [](afterAnchor =>
            /\ (anchor1.outgroup_tmp = <<>>) <=> (anchor1.min_upper_score = IntMax)
            /\ (anchor1.outgroup_tmp = <<>>) <=> (anchor1.uscore = 0 - 1)
            /\ anchor1.outgroup_tmp = <<>> =>
                  /\ anchor1.unode = getRoot /\ anchor1.ival = <<1, 1>>
                  /\ upperIsRootAndFull
                  /\ pc = "done" => (prec.upper = getRoot /\ prec.ival = <<1, 1>>))
    /\ [][(pc \in {"pass1", "pass2", "pass2loop"} /\ upperIsRootAndFull) =>
             /\ upperIsRootAndFull'
             /\ pc' = "done" => (prec'.upper = getRoot /\ prec'.ival = <<1, 1>>)]_vars

\* C20 witness: a finished run on three records whose last anchor, not an
\* exact match, computed an alignment and met no record scoring above qscore;
\* the prediction has the root as upper node above another lower node
C20_Witness ==
    /\ pc = "done" /\ n = 3 /\ anchor1.index_anchor # 0
    /\ anchor1.outgroup_tmp = <<>> /\ anchor1.qscore > 0 /\ pass_1_counter > 0
    /\ anchor1.lnode # getRoot
    /\ prec.upper = getRoot /\ prec.lower # getRoot /\ prec.ival = <<1, 1>>

(***************************************************************************)
(* The outgroup and the loops of passes 1 and 2                            *)
(***************************************************************************)
\* root_pathlength of getLCA(cnode, rtax) for record i of records_ordered
lcaRootDist(i) == root_pathlength[getLCA(records[records_ordered[i]].node, rtax)]
\* the records the last anchor iteration folded into its upper node
foldedRecords(a) == {e[1] : e \in foldedEntries(a.kept, a.min_upper_score)}
\* the smaller of lca_root_dist_min and the depths of a set of records
minDistOver(dmin, S) ==
    IF S = {} THEN dmin ELSE Min2(dmin, SetMin({lcaRootDist(i) : i \in S}))

\* C21: after every anchor iteration of pass 1 every index in outgroup has
\* rootPathLength(LCA(referenceNode(i), rtax)) = lca_root_dist_min, no record
\* folded into the upper node by that iteration has a shallower LCA, and
\* every anchor iteration leaves lca_root_dist_min at the minimum of its
\* former value and the depths of the records it folded (so, starting from the
\* largest value, at the minimum over all records folded so far); pass 2 does
\* not change it and only removes from outgroup.
C21_OutgroupAtMinimalDepth ==
    /\ [](afterAnchor =>
            /\ \A i \in outgroup : lcaRootDist(i) = lca_root_dist_min
            /\ \A i \in outgroup, j \in foldedRecords(anchor1) :
                  lcaRootDist(i) <= lcaRootDist(j)
            /\ \A j \in foldedRecords(anchor1) : lca_root_dist_min <= lcaRootDist(j))
    /\ [](pc \in {"entry", "retrieve", "pass0"} => lca_root_dist_min = SmallUIntMax)
    /\ [][/\ pc = "pass1" =>
                lca_root_dist_min'
                    = minDistOver(lca_root_dist_min, foldedRecords(anchor1'))
          /\ pc \in {"pass2", "pass2loop"} =>
                (lca_root_dist_min' = lca_root_dist_min /\ outgroup' \subseteq outgroup)
         ]_vars

\* C21 witness: an anchor iteration folded two records into its upper node,
\* one with a deeper LCA with rtax than the other, and only the shallower one
\* is in outgroup
C21_Witness ==
    /\ afterAnchor /\ pc = "pass2"
    /\ \E i, j \in foldedRecords(anchor1) :
          /\ lcaRootDist(i) < lcaRootDist(j)
          /\ i \in outgroup /\ j \notin outgroup
          /\ lca_root_dist_min = lcaRootDist(i)

(***************************************************************************)
(* The band factor as a rule over the entries                              *)
(***************************************************************************)
\* the arrangements of data with the anchor first and ascending scores after it
sortedArrangements(data) ==
    {s \in {[k \in 1 .. Len(data) |-> IF k = 1 THEN data[1] ELSE data[p[k - 1] + 1]] :
               p \in walkOrders(Len(data) - 1)} :
        \A k \in 2 .. (Len(data) - 1) : s[k][1] <= s[k + 1][1]}
\* depth of the LCA of entry i with the anchor
entryDepth(s, i) == root_pathlength[getLCA(s[i][2], s[1][2])]
\* entry j set last_rank: the anchor, or strictly shallower than all before it
recordsRank(s, j) == \A k \in 1 .. (j - 1) : entryDepth(s, j) < entryDepth(s, k)
\* entry i is a disorder: deeper than the shallowest entry before it
isDisorder(s, i) ==
    \E k \in 1 .. (i - 1) :
        /\ entryDepth(s, i) > entryDepth(s, k)
        /\ \A l \in 1 .. (i - 1) : entryDepth(s, k) <= entryDepth(s, l)
\* score/s' for every disorder entry and every recorded rank above it, s' # 0
referenceRatios(s) ==
    {FltDiv(FloatOfInt(s[pr[1]][1]), FloatOfInt(s[pr[2]][1])) :
        pr \in {q \in (2 .. Len(s)) \X (1 .. Len(s)) :
                  /\ q[2] < q[1] /\ isDisorder(s, q[1]) /\ recordsRank(s, q[2])
                  /\ entryDepth(s, q[2]) < entryDepth(s, q[1])
                  /\ s[q[2]][1] # 0}}
referenceFactor(s) == FltMaxOver(<<1, 1, 0>>, referenceRatios(s))

\* C22: the value getFactor computes is, for every arrangement of the entries
\* after the anchor in ascending score, the maximum of 1 and score/s' over
\* every disorder entry and every recorded rank above it with s' # 0; it is 1
\* when there is no disorder entry; so it is the same for every order of
\* entries with equal scores, and the order std::sort leaves is one of them.
C22_FactorIsRuleValue ==
    [][(bandfactor_[1] < 0 /\ bandfactor_'[1] >= 0) =>
          /\ data_' \in sortedArrangements(data_)
          /\ \A s \in sortedArrangements(data_) :
                /\ bandfactor_' = referenceFactor(s)
                /\ (\A i \in 2 .. Len(s) : ~isDisorder(s, i)) => bandfactor_' = <<1, 1, 0>>
      ]_vars

\* C22 witness: a factor above 1 computed from four entries of which two have
\* the same score and LCAs of different depth with the anchor
C22_Witness ==
    /\ bandfactor_[1] >= 0 /\ Len(data_) = 4
    /\ data_ \in sortedArrangements(data_)
    /\ FltLT(<<1, 1, 0>>, bandfactor_)
    /\ bandfactor_ = referenceFactor(data_)
    /\ \E i, j \in 2 .. 4 :
          /\ i # j /\ data_[i][1] = data_[j][1]
          /\ entryDepth(data_, i) # entryDepth(data_, j)

\* node of record i of records_ordered
orderedNode(i) == records[records_ordered[i]].node

\* C23: in pass 2 lnode_global and rtax are never modified and unode_global
\* only moves to an ancestor of or equal to its value; once unode_global =
\* lca_allnodes no step of pass 2 computes an alignment or changes
\* unode_global, rrseqs_qscores or rrseqs_matches; and in such a state every
\* record is covered by unode_global and folds into it without changing it,
\* so that the full anchor iteration would leave unode_global as it is.
C23_Pass2ShortcutSound ==
    /\ [][(pc \in {"pass2", "pass2loop"}) =>
             (/\ lnode_global' = lnode_global /\ rtax' = rtax
              /\ isParentOf(unode_global', unode_global)
              /\ unode_global = lca_allnodes =>
                    (/\ unode_global' = unode_global
                     /\ rrseqs_qscores' = rrseqs_qscores
                     /\ rrseqs_matches' = rrseqs_matches
                     /\ pass_2_counter' = pass_2_counter))]_vars
    /\ []((pc \in {"pass2", "pass2loop"} /\ unode_global = lca_allnodes) =>
             \A i \in 1 .. n :
                 /\ alreadyCovered(unode_global, orderedNode(i))
                 /\ getLCA(unode_global, orderedNode(i)) = unode_global)

\* C23 witness: pass 1 left records in outgroup (lca_root_dist_min was set)
\* with unode_global = lca_allnodes; pass 2 has emptied outgroup by skipping
\* every anchor (no full iteration ran), and a record of the outgroup's depth
\* that was never aligned with the query is still unaligned
C23_Witness ==
    /\ pc = "pass2" /\ outgroup = {} /\ lca_root_dist_min # SmallUIntMax
    /\ index_anchor = 0 /\ pass_2_counter = 0
    /\ unode_global = lca_allnodes /\ unode_global # lnode_global
    /\ \E i \in 1 .. n : rrseqs_matches[i] = 0 /\ lcaRootDist(i) = lca_root_dist_min

(***************************************************************************)
(* Termination of predict                                                  *)
(***************************************************************************)
\* predict runs on one thread of control from entry to return: the step at
\* which it stands is taken.  PredictPass0 and PredictPass1Anchor have no guard
\* but the position, and their weak fairness is written with the position in
\* place of ENABLED.
SpecFair ==
    /\ Init /\ [][Next]_vars
    /\ WF_vars(PredictScreen)
    /\ WF_vars(PredictRetrieve)
    /\ <>[](pc = "pass0") => []<><<PredictPass0>>_vars
    /\ <>[](pc = "pass1") => []<><<PredictPass1Anchor>>_vars
    /\ WF_vars(PredictPass2Pop)
    /\ WF_vars(PredictPass2Step)
    /\ WF_vars(PredictFinalize)

inPass2 == pc \in {"pass2", "pass2loop"}

\* C24: predict returns on every recordset; pass 1 runs at most as many
\* anchor iterations as qgroup holds after pass 0 and pass 2 at most as many
\* as outgroup holds after pass 1: every iteration takes its anchor out of the
\* set it drains, no step of the pass puts a member into that set, and no
\* pass-1 iteration follows one that left lnode_global at the root
C24_PredictTerminates ==
    /\ <>(pc = "done")
    /\ [](pc = "pass1" =>
            /\ qgroup # {}
            /\ pass_1_anchors + Cardinality(qgroup) <= num_qnodes
            /\ pass_1_anchors = 0 => Cardinality(qgroup) = num_qnodes
            /\ lnode_global = getRoot => pass_1_anchors = 0)
    /\ []((inPass2 \/ pc = "done") =>
            /\ pass_1_anchors <= num_qnodes
            /\ pass_2_anchors + Cardinality(outgroup) <= num_outgroup
            /\ (pc = "pass2" /\ pass_2_anchors = 0) =>
                   Cardinality(outgroup) = num_outgroup)
    /\ [][/\ (pc = "pass1") =>
                (/\ popFirst(qgroup) \notin qgroup'
                 /\ qgroup' \subseteq qgroup
                 /\ pass_1_anchors' = pass_1_anchors + 1
                 /\ pc' = "pass2" <=> (qgroup' = {} \/ lnode_global' = getRoot))
          /\ (pc = "pass2" /\ outgroup # {}) =>
                (/\ popFirst(outgroup) \notin outgroup'
                 /\ outgroup' \subseteq outgroup
                 /\ pass_2_anchors' = pass_2_anchors + 1)
          /\ (pc = "pass2loop") =>
                (/\ outgroup' \subseteq outgroup
                 /\ pass_2_anchors' = pass_2_anchors)
          /\ inPass2 => qgroup' = qgroup
         ]_vars

\* a call that has returned after two anchor iterations of pass 1 on a qgroup
\* of two and two anchor iterations of pass 2 on an outgroup of two
C24_Witness ==
    /\ pc = "done"
    /\ pass_1_anchors = 2 /\ num_qnodes = 2
    /\ pass_2_anchors = 2 /\ num_outgroup = 2

====
